---- MODULE Spec2Model ----
(***************************************************************************)
(* The portfolio ledger of PortfolioMcp: PortfolioService                  *)
(* (services/portfolio_service.py) over the three Cosmos repositories      *)
(* (database/repository.py), the validators (services/validators.py) and   *)
(* the tool boundary (tools/portfolio_tools.py).                           *)
(*                                                                         *)
(* Each service call is a sequence of store calls.  One store call is one  *)
(* atomic step (the store is atomic per record and nothing more); the      *)
(* local computation that follows a store call up to the next one belongs  *)
(* to the same step.  Several callers (server instances sharing the        *)
(* store) run their calls concurrently, with no lock between them.         *)
(*                                                                         *)
(* Money and quantities are integers: every amount of the model is a       *)
(* whole number below 2^53, on which Python's float arithmetic is exact.   *)
(***************************************************************************)
EXTENDS Integers, Sequences, FiniteSets, TLC

\* ------------------------------------------------------------------ bounds
\* Number of concurrent callers.
NumProcs == 2
\* Number of service calls made in one behaviour.
MaxCalls == 3

Procs == 1..NumProcs

\* ---------------------------------------------------------------- constants
\* Portfolio(id=portfolio_id, cash_balance=100000.0)
DefaultBalance == 100000
\* portfolio_id: str = "default" (the tools never pass another one)
PortfolioId == "default"

\* None
None == -1
\* A position id for which no uuid was ever issued.
UnknownId == 0

\* ------------------------------------------------------------------- inputs
\* Strings are sequences of characters; a raw quantity is a fraction
\* <<numerator, denominator>>.
\* notes = None
NotesNone == <<"none">>
\* quantity = None (remove_holding: sell the whole position)
QuantityNone == <<0, 0>>
\* purchase_price = None (update_position: leave the price)
PriceNone == -1

\* purchase_date = None
DateNone == <<"none">>
\* A date string is a sequence of tokens: <<"1">> is the ISO date of day 1
\* (YYYY-MM-DD), <<"1", "T">> that day's midnight as ISO date and time,
\* <<"1", "T", "Z">> the same with the suffix Z, <<>> the empty string, and
\* anything else is no ISO format.
Days == <<"1", "2", "3">>

\* add_holding(ticker, quantity, purchase_price, purchase_date): the valid
\* requests, and one request for each argument that can be invalid
LongTicker == <<"a", "a", "a", "a", "a", "a", "a", "a", "a", "a", ".", "a">>
AddRequests ==
    { <<<<" ", "a">>, <<1, 1>>, 50000, DateNone>>,
      <<<<" ", "a">>, <<2, 1>>, 50000, <<"1">>>>,
      <<<<"1">>, <<1, 1>>, 50000, DateNone>>,
      <<<<"a">>, <<1, 2>>, 50000, DateNone>>,
      <<<<"a">>, <<1, 1>>, 0, DateNone>>,
      <<<<"a">>, <<1, 1>>, 50000, <<"x">>>>,
      <<LongTicker, <<1, 1>>, 50000, DateNone>> }
\* remove_holding(position_id, quantity): the quantities
SellQuantities == { QuantityNone, <<1, 1>>, <<2, 1>>, <<1, 2>> }
\* update_position(position_id, notes, purchase_price): notes and prices
UpdateRequests ==
    { <<NotesNone, PriceNone>>, <<<<" ">>, PriceNone>>, <<<<"n", " ">>, PriceNone>>,
      <<<<>>, PriceNone>>, <<NotesNone, 60000>>, <<NotesNone, 0>> }
\* ticker, filter_ticker, transaction_type, start_date, end_date = None
FilterNone == <<"none">>
\* `if ticker:` and the like: the argument is neither None nor empty
Given(x) == x # FilterNone /\ x # <<>>
\* get_holdings(filter_ticker, include_totals)
HoldingsRequests ==
    { <<FilterNone, TRUE>>, <<<<"a">>, FALSE>>, <<<<"1">>, TRUE>> }
\* get_transaction_history(ticker, start_date, end_date, transaction_type,
\* limit), as called between the calls that write
LedgerHistoryRequests ==
    { <<FilterNone, FilterNone, FilterNone, FilterNone, 1>>,
      <<FilterNone, FilterNone, FilterNone, <<"b", "u", "y">>, 50>>,
      <<FilterNone, <<"x">>, FilterNone, FilterNone, 50>> }
\* update_cash_balance(amount, operation)
CashRequests ==
    { <<50000, "add">>, <<50000, "subtract">>, <<0, "add">>, <<-1, "add">>,
      <<50000, "set">> }

\* --------------------------------------------------------------- validators
LowerCase == <<"a", "b", "e", "l", "s", "u", "y">>
UpperCase == <<"A", "B", "E", "L", "S", "U", "Y">>
Letters == { UpperCase[i] : i \in 1..Len(UpperCase) }
WhiteSpace == { " " }

\* str.upper() on one character
UpperChar(c) ==
    IF \E i \in 1..Len(LowerCase) : LowerCase[i] = c
    THEN UpperCase[CHOOSE i \in 1..Len(LowerCase) : LowerCase[i] = c]
    ELSE c

\* str.upper()
Upper(s) == [i \in 1..Len(s) |-> UpperChar(s[i])]

\* str.strip()
RECURSIVE LStrip(_)
LStrip(s) == IF s # <<>> /\ Head(s) \in WhiteSpace THEN LStrip(Tail(s)) ELSE s
RECURSIVE RStrip(_)
RStrip(s) ==
    IF s # <<>> /\ s[Len(s)] \in WhiteSpace
    THEN RStrip(SubSeq(s, 1, Len(s) - 1))
    ELSE s
Strip(s) == LStrip(RStrip(s))

AllLetters(s) == \A i \in 1..Len(s) : s[i] \in Letters

\* TICKER_PATTERN = ^[A-Z]{1,10}(\.[A-Z]{1,3})?$
TickerPattern(s) ==
    \/ Len(s) \in 1..10 /\ AllLetters(s)
    \/ \E k \in 2..Len(s) :
        /\ s[k] = "."
        /\ k - 1 \in 1..10
        /\ Len(s) - k \in 1..3
        /\ AllLetters(SubSeq(s, 1, k - 1))
        /\ AllLetters(SubSeq(s, k + 1, Len(s)))

\* validate_ticker returning the stripped ticker in the case it was given
validate_ticker_as_given(ticker) ==
    IF ticker = <<>>
    THEN [ok |-> FALSE, value |-> <<>>]
    ELSE IF TickerPattern(Upper(Strip(ticker)))
    THEN [ok |-> TRUE, value |-> Strip(ticker)]
    ELSE [ok |-> FALSE, value |-> <<>>]

\* validate_ticker: [ok, value]
validate_ticker(ticker) ==
    IF ticker = <<>>
    THEN [ok |-> FALSE, value |-> <<>>]
    ELSE LET t == Upper(Strip(ticker))
         IN  IF TickerPattern(t)
             THEN [ok |-> TRUE, value |-> t]
             ELSE [ok |-> FALSE, value |-> <<>>]

\* validate_quantity (allow_zero = False): [ok, value]
validate_quantity(quantity) ==
    IF quantity[1] < 0 THEN [ok |-> FALSE, value |-> 0]
    ELSE IF quantity[1] = 0 THEN [ok |-> FALSE, value |-> 0]
    ELSE IF quantity[1] % quantity[2] # 0 THEN [ok |-> FALSE, value |-> 0]
    ELSE [ok |-> TRUE, value |-> quantity[1] \div quantity[2]]

\* validate_price (allow_zero = False): [ok, value]
validate_price(price) ==
    IF price < 0 THEN [ok |-> FALSE, value |-> 0]
    ELSE IF price = 0 THEN [ok |-> FALSE, value |-> 0]
    ELSE [ok |-> TRUE, value |-> price]

\* start_dt = None, end_dt = None: no datetime
NoDate == [day |-> 0, aware |-> FALSE]

\* datetime.utcnow(): a naive datetime; every behaviour runs within day 2
utcnow == [day |-> 2, aware |-> FALSE]

\* datetime.fromisoformat on the tokens of a date string: [ok, value]; a
\* datetime is its day and whether it carries a UTC offset
fromisoformat(tokens) ==
    IF /\ Len(tokens) >= 1
       /\ \E n \in 1..Len(Days) : Days[n] = tokens[1]
       /\ ( \/ Len(tokens) = 1
            \/ Len(tokens) = 2 /\ tokens[2] = "T"
            \/ Len(tokens) = 3 /\ tokens[2] = "T" /\ tokens[3] = "+00:00" )
    THEN [ok |-> TRUE,
          value |-> [day |-> CHOOSE n \in 1..Len(Days) : Days[n] = tokens[1],
                     aware |-> Len(tokens) = 3]]
    ELSE [ok |-> FALSE, value |-> utcnow]

\* date_str.replace('Z', '+00:00')
ReplaceZ(tokens) == [i \in 1..Len(tokens) |-> IF tokens[i] = "Z" THEN "+00:00" ELSE tokens[i]]

\* validate_date: [ok, value]
validate_date(date_str) ==
    IF date_str = DateNone THEN [ok |-> TRUE, value |-> utcnow]
    ELSE IF \E i \in 1..Len(date_str) : date_str[i] = "T"
    THEN fromisoformat(ReplaceZ(date_str))
    ELSE fromisoformat(date_str)

\* TransactionType(...).value, as characters
TypeValue(type) ==
    CASE type = "buy" -> <<"b", "u", "y">>
      [] type = "sell" -> <<"s", "e", "l", "l">>

\* valid_types, those whose letters the alphabet has
valid_types == { <<"B", "U", "Y">>, <<"S", "E", "L", "L">> }

\* validate_transaction_type: [ok, value]
validate_transaction_type(transaction_type) ==
    IF transaction_type = <<>>
    THEN [ok |-> FALSE, value |-> <<>>]
    ELSE IF Upper(Strip(transaction_type)) \in valid_types
    THEN [ok |-> TRUE, value |-> Upper(Strip(transaction_type))]
    ELSE [ok |-> FALSE, value |-> <<>>]

\* validate_notes keeping the stripped text when nothing is left of it
validate_notes_kept(notes) ==
    IF notes = NotesNone THEN NotesNone ELSE Strip(notes)

\* validate_notes (every note here is shorter than max_length)
validate_notes(notes) ==
    IF notes = NotesNone THEN NotesNone
    ELSE IF Strip(notes) = <<>> THEN NotesNone
    ELSE Strip(notes)

\* -------------------------------------------------------------------- state
VARIABLES
    portfolios,     \* portfolios container: id -> [cash_balance]
    holdings,       \* holdings container: id -> [ticker, quantity, purchase_price, notes]
    transactions,   \* transactions container: id -> [type, ticker, quantity, price, total, position]
    uuids,          \* number of uuid4() values issued so far
    pc,             \* per caller: the store call it is about to make
    call,           \* per caller: the service call and its arguments
    loc,            \* per caller: the local variables of the call
    res,            \* per caller: the result of the finished call
    pre,            \* per caller: the store when the call began, kept while alone (history)
    alone,          \* per caller: no other caller has stepped since the call began (history)
    written,        \* per caller: the store writes the call has made, in order (history)
    settled,        \* the transactions whose call went on to write the cash balance (history)
    bought,         \* the holding bought by the last call, if it ran alone and succeeded
                    \* and nothing but one sale of that holding has begun since, with
                    \* the balance before the purchase (history)
    events,         \* what has happened so far: a store read failed, a store write
                    \* failed, update_position changed a purchase price (history)
    cosmos,         \* the CosmosDBClient: client, database, _connected, where connect is,
                    \* and what its attempts met (history)
    calls           \* number of calls made so far

vars == <<portfolios, holdings, transactions, uuids, pc, call, loc, res, pre, alone,
          written, settled, bought, events, cosmos, calls>>
store == <<portfolios, holdings, transactions>>
ledger == <<portfolios, holdings, transactions, uuids, pc, call, loc, res, pre, alone,
            written, settled, bought, events>>

\* ---------------------------------------------------------------- documents
\* Portfolio
Portfolio(cash_balance) == [cash_balance |-> cash_balance]

\* Holding.ticker, Transaction.ticker: Field(..., min_length=1, max_length=10)
TickerMaxLength == 10

\* the ticker is checked as longer than max_length never
ticker_field_unbounded(ticker) == Len(ticker) >= 1

\* Field(..., min_length=1, max_length=10) holds of the ticker; the model
\* is not constructed (pydantic's ValidationError) when it does not
ticker_field(ticker) == Len(ticker) >= 1 /\ Len(ticker) <= TickerMaxLength

\* Holding
Holding(ticker, quantity, purchase_price, notes) ==
    [ticker |-> Upper(ticker), quantity |-> quantity,
     purchase_price |-> purchase_price, notes |-> notes]

\* Transaction; position is a history field: the holding the call was about
Transaction(type, ticker, quantity, price, total, date, position) ==
    [type |-> type, ticker |-> Upper(ticker), quantity |-> quantity,
     price |-> price, total |-> total, date |-> date, position |-> position]

\* uuid.uuid4(): a value never issued before
uuid4 == uuids + 1

\* ------------------------------------------------------------- repositories
\* CosmosRepositoryBase.get_by_id: the document, or None
Exists(container, id) == id \in DOMAIN container

\* get_by_id answering with another item of the partition when the id is
\* not stored
get_by_id_any(container, id) ==
    IF Exists(container, id)
    THEN [found |-> TRUE, item |-> container[id]]
    ELSE IF DOMAIN container # {}
    THEN [found |-> TRUE,
          item |-> container[CHOOSE k \in DOMAIN container :
                                \A j \in DOMAIN container : k <= j]]
    ELSE [found |-> FALSE, item |-> <<>>]

\* CosmosRepositoryBase.get_by_id: [found, item]; found = FALSE is None
get_by_id(container, id) ==
    IF Exists(container, id)
    THEN [found |-> TRUE, item |-> container[id]]
    ELSE [found |-> FALSE, item |-> <<>>]

\* container.create_item
create_item(container, id, doc) == container @@ (id :> doc)

\* container.replace_item
replace_item(container, id, doc) == [container EXCEPT ![id] = doc]

\* a delete that removes every document of the partition
delete_partition(container, id) == [k \in {} |-> container[k]]

\* container.delete_item
delete_item(container, id) == [k \in DOMAIN container \ {id} |-> container[k]]

\* create writing with upsert_item: an existing document is overwritten
create_upsert(container, id, doc) ==
    IF Exists(container, id)
    THEN [exc |-> "none", container |-> replace_item(container, id, doc)]
    ELSE [exc |-> "none", container |-> create_item(container, id, doc)]

\* CosmosRepositoryBase.create: [exc, container]
create(container, id, doc) ==
    IF Exists(container, id)
    THEN [exc |-> "DuplicateItemException", container |-> container]
    ELSE [exc |-> "none", container |-> create_item(container, id, doc)]

\* update writing with upsert_item: a missing document is created
update_upsert(container, id, doc) ==
    IF Exists(container, id)
    THEN [exc |-> "none", container |-> replace_item(container, id, doc)]
    ELSE [exc |-> "none", container |-> create_item(container, id, doc)]

\* CosmosRepositoryBase.update: [exc, container]
update(container, id, doc) ==
    IF Exists(container, id)
    THEN [exc |-> "none", container |-> replace_item(container, id, doc)]
    ELSE [exc |-> "ItemNotFoundException", container |-> container]

\* CosmosRepositoryBase.delete: [deleted, container]
delete(container, id) ==
    IF Exists(container, id)
    THEN [deleted |-> TRUE, container |-> delete_item(container, id)]
    ELSE [deleted |-> FALSE, container |-> container]

\* ----------------------------------------------------------- CosmosDBClient
\* max_retries: int = 3, the value the factory constructs the client with
max_retries == 3
\* retry_delay: float = 1.0
retry_delay == 1

\* CosmosDBClient.__init__: no client, no database, not connected.  `at` is
\* where a connect call is, `attempt` the loop variable, `delay` the last
\* back-off slept; `outcomes` (what each attempt of the last connect call
\* met), `began_connected`, `last` (how the last connect call ended) and
\* `disconnected` (a disconnect call followed it) are history.
NewClient ==
    [client |-> FALSE, database |-> FALSE, connected |-> FALSE,
     at |-> "idle", attempt |-> 0, delay |-> 0,
     outcomes |-> <<>>, began_connected |-> FALSE, last |-> "none",
     disconnected |-> FALSE]

\* ------------------------------------------------------------------ callers
NoCall ==
    [op |-> "none", ticker |-> <<>>, quantity |-> <<0, 1>>, price |-> 0,
     purchase_date |-> DateNone, include_totals |-> FALSE,
     transaction_type |-> FilterNone, start_date |-> FilterNone,
     end_date |-> FilterNone, limit |-> 0,
     position_id |-> UnknownId, notes |-> NotesNone, amount |-> 0, operation |-> "none"]

NoLoc ==
    [cont |-> "none", ticker |-> <<>>, quantity |-> 0, price |-> 0, total_cost |-> 0,
     purchase_date_dt |-> utcnow, listed |-> <<>>,
     transaction_type |-> FilterNone, start_dt |-> NoDate, end_dt |-> NoDate,
     limit |-> 0,
     current_balance |-> None, cash_balance |-> None, amount |-> 0, operation |-> "none",
     holding_id |-> None, transaction_id |-> None,
     held |-> None, purchase_price |-> 0, notes |-> NotesNone,
     quantity_to_sell |-> 0, is_full_sale |-> FALSE, proceeds |-> 0]

NoRes ==
    [success |-> FALSE, exc |-> "none", error |-> "none",
     holding_id |-> None, transaction_id |-> None, total_cost |-> None,
     new_cash_balance |-> None, quantity_sold |-> None, proceeds |-> None,
     holding_removed |-> FALSE, remaining_quantity |-> None,
     count |-> None, total_invested |-> None, total_portfolio_value |-> None,
     holdings |-> <<>>, transactions |-> <<>>, by_ticker |-> <<>>]

NoPre == [portfolios |-> <<>>, holdings |-> <<>>, transactions |-> <<>>]

NoBought == [holding |-> None, before |-> None]

\* the tool entry points with `except ValidationError` only
ToolErrorUncaught(op, exc) ==
    IF op \in {"update_cash_balance", "get_cash_balance"} THEN "raised"
    ELSE IF exc = "ValidationError" THEN "validation_error"
    ELSE "raised"

\* The except clauses of the tool entry points
ToolError(op, exc) ==
    IF op \in {"update_cash_balance", "get_cash_balance"} THEN "raised"
    ELSE IF exc = "ValidationError" THEN "validation_error"
    ELSE IF exc = "InsufficientFundsError" /\ op = "add_holding" THEN "insufficient_funds"
    ELSE "internal_error"

Failure(op, exc) == [NoRes EXCEPT !.exc = exc, !.error = ToolError(op, exc)]

Init ==
    /\ portfolios = <<>>
    /\ holdings = <<>>
    /\ transactions = <<>>
    /\ uuids = 0
    /\ pc = [p \in Procs |-> "idle"]
    /\ call = [p \in Procs |-> NoCall]
    /\ loc = [p \in Procs |-> NoLoc]
    /\ res = [p \in Procs |-> NoRes]
    /\ pre = [p \in Procs |-> NoPre]
    /\ alone = [p \in Procs |-> TRUE]
    /\ written = [p \in Procs |-> <<>>]
    /\ settled = {}
    /\ bought = NoBought
    /\ events = {}
    /\ cosmos = NewClient
    /\ calls = 0

\* Caller p is about to make the store call at label l.  A finished call's
\* result is taken first: taking it touches no store, so giving it
\* precedence loses no interleaving of store calls.
At(p, l) ==
    /\ pc[p] = l
    /\ \A q \in Procs : pc[q] # "done"

\* A step of caller p: every other caller with a call under way is no longer alone.
StepNoted(p, event) ==
    /\ bought' = bought
    /\ events' = events \cup event
    /\ cosmos' = cosmos
    /\ alone' = [q \in Procs |-> IF q # p /\ pc[q] # "idle" THEN FALSE ELSE alone[q]]
    /\ pre' = [q \in Procs |-> IF q # p /\ pc[q] # "idle" THEN NoPre ELSE pre[q]]

Stepped(p) == StepNoted(p, {})

\* The store call of caller p wrote a record of the kind `record`, or (NoWrite)
\* was a read or a write that raised.
Wrote(p, record) ==
    /\ written' = [written EXCEPT ![p] = Append(@, record)]
    /\ settled' = IF record = "cash" /\ loc[p].transaction_id # None
                  THEN settled \cup {loc[p].transaction_id}
                  ELSE settled
NoWrite == written' = written /\ settled' = settled

\* Caller p begins a call.
Begin(p, c) ==
    /\ At(p, "idle")
    /\ calls < MaxCalls
    /\ calls' = calls + 1
    /\ call' = [call EXCEPT ![p] = c]
    /\ pre' = [q \in Procs |->
                 IF q = p
                 THEN [portfolios |-> portfolios, holdings |-> holdings,
                       transactions |-> transactions]
                 ELSE IF pc[q] # "idle" THEN NoPre ELSE pre[q]]
    /\ alone' = [q \in Procs |->
                   IF q = p THEN TRUE
                   ELSE IF pc[q] # "idle" THEN FALSE ELSE alone[q]]
    /\ written' = [written EXCEPT ![p] = <<>>]
    /\ settled' = settled
    /\ events' = events
    /\ cosmos' = cosmos
    /\ bought' = IF /\ c.op = "remove_holding"
                    /\ c.position_id = bought.holding
                    /\ \A q \in Procs : pc[q] = "idle"
                 THEN bought ELSE NoBought

\* The call of caller p ends with result r.
Finish(p, r) ==
    /\ pc' = [pc EXCEPT ![p] = "done"]
    /\ res' = [res EXCEPT ![p] = r]

\* The call of caller p raises exc.
Raise(p, exc) == Finish(p, Failure(call[p].op, exc))

\* The call of caller p goes on to the store call at label l.
Goto(p, l) ==
    /\ pc' = [pc EXCEPT ![p] = l]
    /\ res' = res

\* ---------------------------------------------------------- Portfolio (domain)
\* add_cash replacing the balance by the amount
add_cash_replacing(cash_balance, amount) ==
    IF amount <= 0
    THEN [exc |-> "ValueError", cash_balance |-> cash_balance]
    ELSE [exc |-> "none", cash_balance |-> amount]

\* Portfolio.add_cash: [exc, cash_balance]
add_cash(cash_balance, amount) ==
    IF amount <= 0
    THEN [exc |-> "ValueError", cash_balance |-> cash_balance]
    ELSE [exc |-> "none", cash_balance |-> cash_balance + amount]

\* withdraw_cash computing the difference and not assigning it
withdraw_cash_unassigned(cash_balance, amount) ==
    IF amount <= 0 \/ amount > cash_balance
    THEN [exc |-> "ValueError", cash_balance |-> cash_balance]
    ELSE [exc |-> "none", cash_balance |-> cash_balance]

\* Portfolio.withdraw_cash: [exc, cash_balance]
withdraw_cash(cash_balance, amount) ==
    IF amount <= 0
    THEN [exc |-> "ValueError", cash_balance |-> cash_balance]
    ELSE IF amount > cash_balance
    THEN [exc |-> "ValueError", cash_balance |-> cash_balance]
    ELSE [exc |-> "none", cash_balance |-> cash_balance - amount]

\* the entry check on the amount with its comparison turned round
check_cash_update_reversed(amount, operation) ==
    IF amount > 0 THEN "ValidationError"
    ELSE IF operation \notin {"add", "subtract"} THEN "ValidationError"
    ELSE "none"

\* update_cash_balance, the entry checks: the exception raised, or "none"
check_cash_update(amount, operation) ==
    IF amount < 0 THEN "ValidationError"
    ELSE IF operation \notin {"add", "subtract"} THEN "ValidationError"
    ELSE "none"

\* update_cash_balance subtracting without a look at the balance
apply_cash_update_unchecked(cash_balance, amount, operation) ==
    IF operation = "add"
    THEN add_cash(cash_balance, amount)
    ELSE [exc |-> "none", cash_balance |-> cash_balance - amount]

\* update_cash_balance, on the portfolio just read: [exc, cash_balance]
apply_cash_update(cash_balance, amount, operation) ==
    IF operation = "add"
    THEN add_cash(cash_balance, amount)
    ELSE IF amount > cash_balance
    THEN [exc |-> "InsufficientFundsError", cash_balance |-> cash_balance]
    ELSE withdraw_cash(cash_balance, amount)

\* add_holding with the check of the cash balance left out
insufficient_funds_unchecked(total_cost, current_balance) == FALSE

\* add_holding, the check of the cash balance
insufficient_funds(total_cost, current_balance) == total_cost > current_balance

\* total_invested = sum(h.quantity * h.purchase_price for h in holdings)
RECURSIVE total_invested(_)
total_invested(listed) ==
    IF DOMAIN listed = {} THEN 0
    ELSE LET h == CHOOSE k \in DOMAIN listed : TRUE
         IN  listed[h].quantity * listed[h].purchase_price
             + total_invested([k \in DOMAIN listed \ {h} |-> listed[k]])

\* the per-ticker totals with each holding's figures assigned, not added
RECURSIVE ticker_totals_assigned(_)
ticker_totals_assigned(listed) ==
    IF DOMAIN listed = {} THEN <<>>
    ELSE LET h == CHOOSE k \in DOMAIN listed : TRUE
             rest == ticker_totals_assigned([k \in DOMAIN listed \ {h} |-> listed[k]])
         IN  [k \in DOMAIN rest \cup {listed[h].ticker} |->
                IF k = listed[h].ticker
                THEN [quantity |-> listed[h].quantity,
                      invested |-> listed[h].quantity * listed[h].purchase_price]
                ELSE rest[k]]

\* ticker_totals: for each ticker of the holdings, the quantity and the
\* quantity * purchase_price added up over the holdings of that ticker
RECURSIVE ticker_totals(_)
ticker_totals(listed) ==
    IF DOMAIN listed = {} THEN <<>>
    ELSE LET h == CHOOSE k \in DOMAIN listed : TRUE
             rest == ticker_totals([k \in DOMAIN listed \ {h} |-> listed[k]])
             old == IF listed[h].ticker \in DOMAIN rest
                    THEN rest[listed[h].ticker]
                    ELSE [quantity |-> 0, invested |-> 0]
         IN  [k \in DOMAIN rest \cup {listed[h].ticker} |->
                IF k = listed[h].ticker
                THEN [quantity |-> old.quantity + listed[h].quantity,
                      invested |-> old.invested
                                     + listed[h].quantity * listed[h].purchase_price]
                ELSE rest[k]]

\* ------------------------------------------------- get_or_create_portfolio
\* What the caller of get_or_create_portfolio does with the portfolio it
\* returns, up to its next store call.
Resume(p, portfolio) ==
    CASE loc[p].cont = "add_holding" ->
           /\ loc' = [loc EXCEPT ![p].current_balance = portfolio.cash_balance]
           /\ IF insufficient_funds(loc[p].total_cost, portfolio.cash_balance)
              THEN Raise(p, "InsufficientFundsError")
              ELSE IF ~ticker_field(loc[p].ticker)
              THEN Raise(p, "pydantic.ValidationError")
              ELSE Goto(p, "holding_create")
      [] loc[p].cont = "update_cash_balance" ->
           LET r == apply_cash_update(portfolio.cash_balance, loc[p].amount,
                                      loc[p].operation)
           IN  IF r.exc # "none"
               THEN Raise(p, r.exc) /\ UNCHANGED loc
               ELSE /\ Goto(p, "portfolio_update")
                    /\ loc' = [loc EXCEPT ![p].cash_balance = r.cash_balance]
      [] loc[p].cont = "get_cash_balance" ->
           /\ Finish(p, [NoRes EXCEPT !.success = TRUE,
                                      !.new_cash_balance = portfolio.cash_balance])
           /\ UNCHANGED loc
      [] loc[p].cont = "get_holdings" ->
           /\ Finish(p, [NoRes EXCEPT
                            !.success = TRUE,
                            !.holdings = loc[p].listed,
                            !.count = Cardinality(DOMAIN loc[p].listed),
                            !.total_invested = total_invested(loc[p].listed),
                            !.new_cash_balance = portfolio.cash_balance,
                            !.by_ticker = ticker_totals(loc[p].listed),
                            !.total_portfolio_value =
                                total_invested(loc[p].listed) + portfolio.cash_balance])
           /\ UNCHANGED loc

\* get_or_create_portfolio: portfolio_repo.get_by_id
GetPortfolio(p) ==
    /\ At(p, "portfolio_get")
    /\ IF Exists(portfolios, PortfolioId)
       THEN Resume(p, portfolios[PortfolioId])
       ELSE Goto(p, "portfolio_create") /\ UNCHANGED loc
    /\ Stepped(p)
    /\ NoWrite
    /\ UNCHANGED <<store, uuids, call, calls>>

\* get_or_create_portfolio: portfolio_repo.create
CreatePortfolio(p) ==
    /\ At(p, "portfolio_create")
    /\ LET c == create(portfolios, PortfolioId, Portfolio(DefaultBalance))
       IN  /\ portfolios' = c.container
           /\ IF c.exc # "none"
              THEN Raise(p, c.exc) /\ UNCHANGED loc
              ELSE Resume(p, Portfolio(DefaultBalance))
    /\ Stepped(p)
    /\ IF create(portfolios, PortfolioId, Portfolio(DefaultBalance)).exc = "none"
       THEN Wrote(p, "portfolio") ELSE NoWrite
    /\ UNCHANGED <<holdings, transactions, uuids, call, calls>>

\* get_cash_balance
CallGetCashBalance(p) ==
    /\ Begin(p, [NoCall EXCEPT !.op = "get_cash_balance"])
    /\ loc' = [loc EXCEPT ![p] = [NoLoc EXCEPT !.cont = "get_cash_balance"]]
    /\ Goto(p, "portfolio_get")
    /\ UNCHANGED <<store, uuids>>

\* ----------------------------------------------------- update_cash_balance
\* update_cash_balance up to its first store call, with the locals l
EnterCashUpdate(p, l, amount, operation) ==
    /\ loc' = [loc EXCEPT ![p] = [l EXCEPT !.cont = "update_cash_balance",
                                          !.amount = amount,
                                          !.operation = operation]]
    /\ IF check_cash_update(amount, operation) # "none"
       THEN Raise(p, check_cash_update(amount, operation))
       ELSE Goto(p, "portfolio_get")

CallUpdateCashBalance(p) ==
    \E r \in CashRequests :
      LET amount == r[1]
          operation == r[2]
      IN
        /\ Begin(p, [NoCall EXCEPT !.op = "update_cash_balance",
                                   !.amount = amount, !.operation = operation])
        /\ EnterCashUpdate(p, NoLoc, amount, operation)
        /\ UNCHANGED <<store, uuids>>

\* the quantity held before the sale reported as the remaining quantity
remaining_quantity_before_sale(is_full_sale, held, quantity_sold) ==
    IF is_full_sale THEN 0 ELSE held

\* remove_holding, "remaining_quantity": 0 if is_full_sale else holding.quantity
remaining_quantity(is_full_sale, held, quantity_sold) ==
    IF is_full_sale THEN 0 ELSE held - quantity_sold

\* The result of the call whose last step is update_cash_balance.
CashUpdated(p) ==
    CASE call[p].op = "add_holding" ->
           [NoRes EXCEPT !.success = TRUE,
                         !.holding_id = loc[p].holding_id,
                         !.transaction_id = loc[p].transaction_id,
                         !.total_cost = loc[p].total_cost,
                         !.new_cash_balance = loc[p].cash_balance]
      [] call[p].op = "remove_holding" ->
           [NoRes EXCEPT !.success = TRUE,
                         !.transaction_id = loc[p].transaction_id,
                         !.quantity_sold = loc[p].quantity_to_sell,
                         !.proceeds = loc[p].proceeds,
                         !.new_cash_balance = loc[p].cash_balance,
                         !.holding_removed = loc[p].is_full_sale,
                         !.remaining_quantity =
                             remaining_quantity(loc[p].is_full_sale, loc[p].held,
                                                loc[p].quantity_to_sell)]
      [] call[p].op = "update_cash_balance" ->
           [NoRes EXCEPT !.success = TRUE,
                         !.new_cash_balance = loc[p].cash_balance]

\* update_cash_balance: portfolio_repo.update
UpdatePortfolio(p) ==
    /\ At(p, "portfolio_update")
    /\ LET u == update(portfolios, PortfolioId, Portfolio(loc[p].cash_balance))
       IN  /\ portfolios' = u.container
           /\ IF u.exc # "none"
              THEN Raise(p, u.exc)
              ELSE Finish(p, CashUpdated(p))
    /\ Stepped(p)
    /\ IF update(portfolios, PortfolioId, Portfolio(loc[p].cash_balance)).exc = "none"
       THEN Wrote(p, "cash") ELSE NoWrite
    /\ UNCHANGED <<holdings, transactions, uuids, call, loc, calls>>

\* -------------------------------------------------------------- add_holding
\* add_holding up to its first store call: validation and the total cost
CallAddHolding(p, requests) ==
    \E r \in requests :
      LET ticker == r[1]
          quantity == r[2]
          price == r[3]
          purchase_date == r[4]
      IN
        /\ Begin(p, [NoCall EXCEPT !.op = "add_holding", !.ticker = ticker,
                                   !.quantity = quantity, !.price = price,
                                   !.purchase_date = purchase_date])
        /\ IF /\ validate_ticker(ticker).ok
              /\ validate_quantity(quantity).ok
              /\ validate_price(price).ok
              /\ validate_date(purchase_date).ok
           THEN /\ loc' = [loc EXCEPT ![p] =
                            [NoLoc EXCEPT
                               !.cont = "add_holding",
                               !.ticker = validate_ticker(ticker).value,
                               !.quantity = validate_quantity(quantity).value,
                               !.price = validate_price(price).value,
                               !.purchase_date_dt = validate_date(purchase_date).value,
                               !.total_cost = validate_quantity(quantity).value
                                              * validate_price(price).value]]
                /\ Goto(p, "portfolio_get")
           ELSE /\ loc' = [loc EXCEPT ![p] = NoLoc]
                /\ Raise(p, "ValidationError")
        /\ UNCHANGED <<store, uuids>>

\* add_holding: holdings_repo.create
CreateHolding(p) ==
    /\ At(p, "holding_create")
    /\ LET c == create(holdings, uuid4,
                       Holding(loc[p].ticker, loc[p].quantity, loc[p].price, NotesNone))
       IN  /\ holdings' = c.container
           /\ IF c.exc # "none" THEN Raise(p, c.exc) ELSE Goto(p, "buy_create")
    /\ uuids' = uuids + 1
    /\ loc' = [loc EXCEPT ![p].holding_id = uuid4]
    /\ Stepped(p)
    /\ Wrote(p, "holding")
    /\ UNCHANGED <<portfolios, transactions, call, calls>>

\* add_holding: transactions_repo.create, then update_cash_balance begins
CreateBuyTransaction(p) ==
    /\ At(p, "buy_create")
    /\ LET c == create(transactions, uuid4,
                       Transaction("buy", loc[p].ticker, loc[p].quantity,
                                   loc[p].price, 0 - loc[p].total_cost,
                                   loc[p].purchase_date_dt, loc[p].holding_id))
       IN  /\ transactions' = c.container
           /\ IF c.exc # "none"
              THEN Raise(p, c.exc) /\ UNCHANGED loc
              ELSE EnterCashUpdate(p, [loc[p] EXCEPT !.transaction_id = uuid4],
                                   loc[p].total_cost, "subtract")
    /\ uuids' = uuids + 1
    /\ Stepped(p)
    /\ Wrote(p, "transaction")
    /\ UNCHANGED <<portfolios, holdings, call, calls>>

\* ----------------------------------------------------------- remove_holding
\* Position ids a caller may name: the holdings stored, the holdings that
\* were bought or sold, and an id never issued.
PositionIds ==
    {UnknownId} \cup DOMAIN holdings
                \cup {transactions[t].position : t \in DOMAIN transactions}

CallRemoveHolding(p) ==
    \E position_id \in PositionIds, quantity \in SellQuantities :
        /\ Begin(p, [NoCall EXCEPT !.op = "remove_holding",
                                   !.position_id = position_id,
                                   !.quantity = quantity])
        /\ loc' = [loc EXCEPT ![p] = NoLoc]
        /\ Goto(p, "sale_get")
        /\ UNCHANGED <<store, uuids>>

\* remove_holding taking a sale for full only when no quantity is given
quantity_to_sell_partial(quantity, held) ==
    IF quantity = QuantityNone
    THEN [exc |-> "none", quantity_to_sell |-> held, is_full_sale |-> TRUE]
    ELSE IF ~validate_quantity(quantity).ok \/ validate_quantity(quantity).value > held
    THEN [exc |-> "ValidationError", quantity_to_sell |-> 0, is_full_sale |-> FALSE]
    ELSE [exc |-> "none", quantity_to_sell |-> validate_quantity(quantity).value,
          is_full_sale |-> FALSE]

\* remove_holding, the quantity to sell of a holding of `held` shares:
\* [exc, quantity_to_sell, is_full_sale]
quantity_to_sell(quantity, held) ==
    IF quantity = QuantityNone
    THEN [exc |-> "none", quantity_to_sell |-> held, is_full_sale |-> TRUE]
    ELSE IF ~validate_quantity(quantity).ok
    THEN [exc |-> "ValidationError", quantity_to_sell |-> 0, is_full_sale |-> FALSE]
    ELSE IF validate_quantity(quantity).value > held
    THEN [exc |-> "ValidationError", quantity_to_sell |-> 0, is_full_sale |-> FALSE]
    ELSE [exc |-> "none", quantity_to_sell |-> validate_quantity(quantity).value,
          is_full_sale |-> (validate_quantity(quantity).value = held)]

\* the proceeds computed on the whole position instead of the quantity sold
sale_proceeds_of_position(quantity_sold, holding) ==
    holding.quantity * holding.purchase_price

\* remove_holding, the proceeds (the purchase price stands for the current price)
sale_proceeds(quantity_sold, holding) == quantity_sold * holding.purchase_price

\* remove_holding: holdings_repo.get_by_id, then the quantity and the proceeds
GetHoldingForSale(p) ==
    /\ At(p, "sale_get")
    /\ IF ~get_by_id(holdings, call[p].position_id).found
       THEN Raise(p, "ItemNotFoundException") /\ UNCHANGED loc
       ELSE LET holding == get_by_id(holdings, call[p].position_id).item
                s == quantity_to_sell(call[p].quantity, holding.quantity)
            IN  IF s.exc # "none"
                THEN Raise(p, s.exc) /\ UNCHANGED loc
                ELSE /\ loc' = [loc EXCEPT ![p] =
                                  [NoLoc EXCEPT
                                     !.ticker = holding.ticker,
                                     !.held = holding.quantity,
                                     !.purchase_price = holding.purchase_price,
                                     !.notes = holding.notes,
                                     !.quantity_to_sell = s.quantity_to_sell,
                                     !.is_full_sale = s.is_full_sale,
                                     !.proceeds =
                                         sale_proceeds(s.quantity_to_sell, holding)]]
                     /\ Goto(p, "sale_write")
    /\ Stepped(p)
    /\ NoWrite
    /\ UNCHANGED <<store, uuids, call, calls>>

\* remove_holding: holdings_repo.delete (full sale) or holdings_repo.update
WriteHoldingForSale(p) ==
    /\ At(p, "sale_write")
    /\ IF loc[p].is_full_sale
       THEN /\ holdings' = delete(holdings, call[p].position_id).container
            /\ Goto(p, "sell_create")
       ELSE LET u == update(holdings, call[p].position_id,
                            Holding(loc[p].ticker,
                                    loc[p].held - loc[p].quantity_to_sell,
                                    loc[p].purchase_price, loc[p].notes))
            IN  /\ holdings' = u.container
                /\ IF u.exc # "none" THEN Raise(p, u.exc) ELSE Goto(p, "sell_create")
    /\ Stepped(p)
    /\ IF loc[p].is_full_sale \/ Exists(holdings, call[p].position_id)
       THEN Wrote(p, "holding") ELSE NoWrite
    /\ UNCHANGED <<portfolios, transactions, uuids, call, loc, calls>>

\* the sale written over the transactions already recorded for the position
record_sale_amending(container, id, transaction) ==
    IF \E t \in DOMAIN container : container[t].position = transaction.position
    THEN [exc |-> "none",
          container |-> [t \in DOMAIN container |->
                           IF container[t].position = transaction.position
                           THEN transaction ELSE container[t]]]
    ELSE create(container, id, transaction)

\* the sale answered as recorded with no document written
record_sale_unsaved(container, id, transaction) ==
    [exc |-> "none", container |-> container]

\* remove_holding, the SELL transaction is recorded: transactions_repo.create
record_sale(container, id, transaction) == create(container, id, transaction)

\* remove_holding: transactions_repo.create, then update_cash_balance begins
CreateSellTransaction(p) ==
    /\ At(p, "sell_create")
    /\ LET c == record_sale(transactions, uuid4,
                            Transaction("sell", loc[p].ticker, loc[p].quantity_to_sell,
                                        loc[p].purchase_price, loc[p].proceeds,
                                        utcnow, call[p].position_id))
       IN  /\ transactions' = c.container
           /\ IF c.exc # "none"
              THEN Raise(p, c.exc) /\ UNCHANGED loc
              ELSE EnterCashUpdate(p, [loc[p] EXCEPT !.transaction_id = uuid4],
                                   loc[p].proceeds, "add")
    /\ uuids' = uuids + 1
    /\ Stepped(p)
    /\ Wrote(p, "transaction")
    /\ UNCHANGED <<portfolios, holdings, call, calls>>

\* ---------------------------------------------------------- update_position
CallUpdatePosition(p) ==
    \E position_id \in PositionIds, r \in UpdateRequests :
      LET notes == r[1]
          price == r[2]
      IN
        /\ Begin(p, [NoCall EXCEPT !.op = "update_position",
                                   !.position_id = position_id,
                                   !.notes = notes, !.price = price])
        /\ loc' = [loc EXCEPT ![p] = NoLoc]
        /\ Goto(p, "position_get")
        /\ UNCHANGED <<store, uuids>>

\* update_position, the fields to write: [exc, notes, purchase_price]
updated_fields(holding, notes, purchase_price) ==
    IF purchase_price # PriceNone /\ ~validate_price(purchase_price).ok
    THEN [exc |-> "ValidationError", notes |-> holding.notes,
          purchase_price |-> holding.purchase_price]
    ELSE IF notes = NotesNone /\ purchase_price = PriceNone
    THEN [exc |-> "ValidationError", notes |-> holding.notes,
          purchase_price |-> holding.purchase_price]
    ELSE [exc |-> "none",
          notes |-> IF notes # NotesNone THEN validate_notes(notes) ELSE holding.notes,
          purchase_price |-> IF purchase_price # PriceNone
                             THEN validate_price(purchase_price).value
                             ELSE holding.purchase_price]

\* update_position: holdings_repo.get_by_id, then the fields to update
GetHoldingForUpdate(p) ==
    /\ At(p, "position_get")
    /\ IF ~get_by_id(holdings, call[p].position_id).found
       THEN Raise(p, "ItemNotFoundException") /\ UNCHANGED loc
       ELSE LET holding == get_by_id(holdings, call[p].position_id).item
                u == updated_fields(holding, call[p].notes, call[p].price)
            IN  IF u.exc # "none"
                THEN Raise(p, u.exc) /\ UNCHANGED loc
                ELSE /\ loc' = [loc EXCEPT ![p] =
                                  [NoLoc EXCEPT
                                     !.ticker = holding.ticker,
                                     !.held = holding.quantity,
                                     !.purchase_price = u.purchase_price,
                                     !.notes = u.notes]]
                     /\ Goto(p, "position_update")
    /\ Stepped(p)
    /\ NoWrite
    /\ UNCHANGED <<store, uuids, call, calls>>

\* update_position: holdings_repo.update
WriteHoldingForUpdate(p) ==
    /\ At(p, "position_update")
    /\ LET u == update(holdings, call[p].position_id,
                       Holding(loc[p].ticker, loc[p].held,
                               loc[p].purchase_price, loc[p].notes))
       IN  /\ holdings' = u.container
           /\ IF u.exc # "none"
              THEN Raise(p, u.exc)
              ELSE Finish(p, [NoRes EXCEPT !.success = TRUE,
                                          !.holding_id = call[p].position_id])
    /\ StepNoted(p, IF /\ Exists(holdings, call[p].position_id)
                       /\ holdings[call[p].position_id].purchase_price
                            # loc[p].purchase_price
                    THEN {"price_changed"} ELSE {})
    /\ IF Exists(holdings, call[p].position_id)
       THEN Wrote(p, "holding") ELSE NoWrite
    /\ UNCHANGED <<portfolios, transactions, uuids, call, loc, calls>>

\* ------------------------------------------------------------- get_holdings
\* get_holdings(filter_ticker, include_totals) as called
CallGetHoldings(p, requests) ==
    \E r \in requests :
      LET filter_ticker == r[1]
          include_totals == r[2]
      IN
        /\ Begin(p, [NoCall EXCEPT !.op = "get_holdings", !.ticker = filter_ticker,
                                   !.include_totals = include_totals])
        /\ IF Given(filter_ticker) /\ ~validate_ticker(filter_ticker).ok
           THEN /\ loc' = [loc EXCEPT ![p] = NoLoc]
                /\ Raise(p, "ValidationError")
           ELSE /\ loc' = [loc EXCEPT ![p] =
                            [NoLoc EXCEPT
                               !.ticker = IF Given(filter_ticker)
                                          THEN validate_ticker(filter_ticker).value
                                          ELSE filter_ticker]]
                /\ Goto(p, "holdings_query")
        /\ UNCHANGED <<store, uuids>>

\* holdings_repo.get_by_ticker / get_portfolio_holdings: the items the
\* query matches
query_holdings(container, ticker) ==
    LET ids == IF Given(ticker)
               THEN { h \in DOMAIN container : container[h].ticker = Upper(ticker) }
               ELSE DOMAIN container
    IN  [h \in ids |-> container[h]]

\* get_holdings: the query; with include_totals get_cash_balance follows
QueryHoldings(p) ==
    /\ At(p, "holdings_query")
    /\ LET listed == query_holdings(holdings, loc[p].ticker)
       IN  IF call[p].include_totals
           THEN /\ loc' = [loc EXCEPT ![p].listed = listed,
                                      ![p].cont = "get_holdings"]
                /\ Goto(p, "portfolio_get")
           ELSE /\ Finish(p, [NoRes EXCEPT !.success = TRUE,
                                           !.holdings = listed,
                                           !.count = Cardinality(DOMAIN listed)])
                /\ UNCHANGED loc
    /\ NoWrite
    /\ Stepped(p)
    /\ UNCHANGED <<store, uuids, call, calls>>

\* -------------------------------------------------- get_transaction_history
\* the largest limit, min(..., 200)
MaxLimit == 200

\* the limit taken as it is given
clamp_limit_unclamped(limit) == limit

\* limit = min(max(1, limit), 200)
clamp_limit(limit) ==
    LET low == IF limit > 1 THEN limit ELSE 1
    IN  IF low < MaxLimit THEN low ELSE MaxLimit

\* get_transaction_history(...) as called: the arguments are validated in
\* the order ticker, transaction_type, start_date, end_date
CallGetTransactionHistory(p, requests) ==
    \E r \in requests :
      LET ticker == r[1]
          start_date == r[2]
          end_date == r[3]
          transaction_type == r[4]
          limit == r[5]
      IN
        /\ Begin(p, [NoCall EXCEPT !.op = "get_transaction_history",
                                   !.ticker = ticker, !.start_date = start_date,
                                   !.end_date = end_date,
                                   !.transaction_type = transaction_type,
                                   !.limit = limit])
        /\ IF \/ Given(ticker) /\ ~validate_ticker(ticker).ok
              \/ Given(transaction_type)
                   /\ ~validate_transaction_type(transaction_type).ok
              \/ Given(start_date) /\ ~validate_date(start_date).ok
              \/ Given(end_date) /\ ~validate_date(end_date).ok
           THEN /\ loc' = [loc EXCEPT ![p] = NoLoc]
                /\ Raise(p, "ValidationError")
           ELSE /\ loc' = [loc EXCEPT ![p] =
                            [NoLoc EXCEPT
                               !.ticker = IF Given(ticker)
                                          THEN validate_ticker(ticker).value
                                          ELSE ticker,
                               !.transaction_type =
                                   IF Given(transaction_type)
                                   THEN validate_transaction_type(transaction_type).value
                                   ELSE transaction_type,
                               !.start_dt = IF Given(start_date)
                                            THEN validate_date(start_date).value
                                            ELSE NoDate,
                               !.end_dt = IF Given(end_date)
                                          THEN validate_date(end_date).value
                                          ELSE NoDate,
                               !.limit = clamp_limit(limit)]]
                /\ Goto(p, "transactions_query")
        /\ UNCHANGED <<store, uuids>>

\* The transactions (ids, in the order `listed`) of the given type
filter_type(container, listed, transaction_type) ==
    SelectSeq(listed,
              LAMBDA t : Upper(TypeValue(container[t].type)) = transaction_type)

\* t.date >= start_dt / t.date <= end_dt raise TypeError between a datetime
\* with an offset and one without: some transaction listed cannot be
\* compared with dt
Incomparable(container, listed, dt) ==
    \E i \in 1..Len(listed) : container[listed[i]].date.aware # dt.aware

\* filtered = [t for t in filtered if t.date >= start_dt]
filter_start(container, listed, start_dt) ==
    SelectSeq(listed, LAMBDA t : container[t].date.day >= start_dt.day)

\* filtered = [t for t in filtered if t.date <= end_dt]
filter_end(container, listed, end_dt) ==
    SelectSeq(listed, LAMBDA t : container[t].date.day <= end_dt.day)

\* the sort comparing two datetimes, one with an offset and one without
Unsortable(container, listed) ==
    \E i, j \in 1..Len(listed) :
        container[listed[i]].date.aware # container[listed[j]].date.aware

\* the transactions listed, those of the latest of `days` first, those of
\* one day in the order they are listed in
RECURSIVE sorted_from(_, _, _)
sorted_from(container, listed, days) ==
    IF days = {} THEN <<>>
    ELSE LET latest == CHOOSE d \in days : \A e \in days : d >= e
         IN  SelectSeq(listed, LAMBDA t : container[t].date.day = latest)
               \o sorted_from(container, listed, days \ {latest})

\* filtered.sort(key=lambda t: t.date, reverse=True): a stable sort, the
\* transactions of one date stay in the order they were listed in
sort_by_date(container, listed) ==
    sorted_from(container, listed,
                {container[listed[i]].date.day : i \in 1..Len(listed)})

\* get_transaction_history on the transactions `listed` by the store, with
\* the validated filters f: the filters, the sort, the limit:
\* [exc, transactions]
history(container, listed, f) ==
    LET typed == IF Given(f.transaction_type)
                 THEN filter_type(container, listed, f.transaction_type)
                 ELSE listed
        started == IF f.start_dt # NoDate
                   THEN filter_start(container, typed, f.start_dt) ELSE typed
        ended == IF f.end_dt # NoDate
                 THEN filter_end(container, started, f.end_dt) ELSE started
        sorted == sort_by_date(container, ended)
    IN  IF \/ f.start_dt # NoDate /\ Incomparable(container, typed, f.start_dt)
           \/ f.end_dt # NoDate /\ Incomparable(container, started, f.end_dt)
           \/ Unsortable(container, ended)
        THEN [exc |-> "TypeError", transactions |-> <<>>]
        ELSE [exc |-> "none",
              transactions |->
                  SubSeq(sorted, 1, IF Len(sorted) < f.limit THEN Len(sorted) ELSE f.limit)]

\* The store answers a query with the matching items in an order of its
\* choosing; a result of more than MaxShuffled items is taken in the order
\* of the ids or in the reverse order only.
MaxShuffled == 3

\* The ids in ascending order
Ascending(ids) ==
    LET low == CHOOSE k \in ids : \A j \in ids : k <= j
        high == CHOOSE k \in ids : \A j \in ids : k >= j
    IN  SelectSeq([i \in 1..(high - low + 1) |-> low + i - 1], LAMBDA k : k \in ids)

Reverse(s) == [i \in 1..Len(s) |-> s[Len(s) + 1 - i]]

Orders(ids) ==
    IF Cardinality(ids) <= MaxShuffled
    THEN { o \in [1..Cardinality(ids) -> ids] :
              \A i, j \in 1..Cardinality(ids) : i # j => o[i] # o[j] }
    ELSE { Ascending(ids), Reverse(Ascending(ids)) }

\* transactions_repo.get_by_ticker / get_portfolio_transactions: the ids of
\* the items the query matches
query_transactions(container, ticker) ==
    IF Given(ticker)
    THEN { t \in DOMAIN container : container[t].ticker = Upper(ticker) }
    ELSE DOMAIN container

\* get_transaction_history: the query, then the filters, the sort, the limit
QueryTransactions(p) ==
    /\ At(p, "transactions_query")
    /\ \E listed \in Orders(query_transactions(transactions, loc[p].ticker)) :
         LET h == history(transactions, listed, loc[p])
         IN  IF h.exc # "none"
             THEN Raise(p, h.exc)
             ELSE Finish(p, [NoRes EXCEPT !.success = TRUE,
                                         !.transactions = h.transactions,
                                         !.count = Len(h.transactions)])
    /\ NoWrite
    /\ Stepped(p)
    /\ UNCHANGED <<store, uuids, call, loc, calls>>

\* ------------------------------------------------------------ the store fails
StoreCalls ==
    {"portfolio_get", "portfolio_create", "portfolio_update", "holding_create",
     "buy_create", "sale_get", "sale_write", "sell_create", "position_get",
     "position_update", "holdings_query", "transactions_query"}

\* The store calls that write: create_item, replace_item, delete_item
StoreWrites ==
    {"portfolio_create", "portfolio_update", "holding_create", "buy_create",
     "sale_write", "sell_create", "position_update"}

\* A store call fails for a reason of the store's: RepositoryException, and
\* the call ends where it is, with nothing rolled back.
StoreFailure(p) ==
    /\ \E l \in StoreCalls : At(p, l)
    /\ Raise(p, "RepositoryException")
    /\ StepNoted(p, {IF pc[p] \in StoreWrites THEN "write_failed" ELSE "read_failed"})
    /\ NoWrite
    /\ UNCHANGED <<store, uuids, call, loc, calls>>

\* The caller takes the result; it may call again.
Return(p) ==
    /\ pc[p] = "done"
    /\ pc' = [pc EXCEPT ![p] = "idle"]
    /\ call' = [call EXCEPT ![p] = NoCall]
    /\ loc' = [loc EXCEPT ![p] = NoLoc]
    /\ res' = [res EXCEPT ![p] = NoRes]
    /\ pre' = [pre EXCEPT ![p] = NoPre]
    /\ alone' = [alone EXCEPT ![p] = TRUE]
    /\ written' = [written EXCEPT ![p] = <<>>]
    /\ settled' = settled
    /\ events' = events
    /\ cosmos' = cosmos
    /\ bought' = IF call[p].op = "add_holding" /\ res[p].success /\ alone[p]
                 THEN [holding |-> res[p].holding_id,
                       before |-> IF Exists(pre[p].portfolios, PortfolioId)
                                  THEN pre[p].portfolios[PortfolioId].cash_balance
                                  ELSE DefaultBalance]
                 ELSE NoBought
    /\ UNCHANGED <<store, uuids, calls>>

Next ==
    \E p \in Procs :
        \/ CallGetCashBalance(p)
        \/ CallUpdateCashBalance(p)
        \/ CallAddHolding(p, AddRequests)
        \/ CallRemoveHolding(p)
        \/ CallUpdatePosition(p)
        \/ CallGetHoldings(p, HoldingsRequests)
        \/ CallGetTransactionHistory(p, LedgerHistoryRequests)
        \/ GetPortfolio(p)
        \/ CreatePortfolio(p)
        \/ UpdatePortfolio(p)
        \/ CreateHolding(p)
        \/ CreateBuyTransaction(p)
        \/ GetHoldingForSale(p)
        \/ WriteHoldingForSale(p)
        \/ CreateSellTransaction(p)
        \/ GetHoldingForUpdate(p)
        \/ WriteHoldingForUpdate(p)
        \/ QueryHoldings(p)
        \/ QueryTransactions(p)
        \/ StoreFailure(p)
        \/ Return(p)

Spec == Init /\ [][Next]_vars

\* ------------------------------------------- the history of a given ledger
\* get_transaction_history is a function of the stored transactions and of
\* its arguments.  It is applied here to the ledgers that earlier trading
\* has left: a trade is a purchase of one share on a date of the caller's
\* choosing (add_holding with purchase_date), sold or not on a later day
\* (remove_holding).
MaxTrades == 2

TradeKinds ==
    { [ticker |-> <<"A">>, price |-> 100,
       date |-> [day |-> 1, aware |-> FALSE], sold |-> FALSE, sold_on |-> 0],
      [ticker |-> <<"A">>, price |-> 100,
       date |-> [day |-> 3, aware |-> FALSE], sold |-> TRUE, sold_on |-> 2],
      [ticker |-> <<"B">>, price |-> 100,
       date |-> [day |-> 2, aware |-> FALSE], sold |-> TRUE, sold_on |-> 3],
      [ticker |-> <<"B">>, price |-> 100,
       date |-> [day |-> 3, aware |-> FALSE], sold |-> FALSE, sold_on |-> 0],
      [ticker |-> <<"A">>, price |-> 100,
       date |-> [day |-> 1, aware |-> TRUE], sold |-> FALSE, sold_on |-> 0] }

\* MaxLimit + 1 purchases never sold, on three days in turn
LongBook ==
    [i \in 1..(MaxLimit + 1) |->
        [ticker |-> <<"A">>, price |-> 100,
         date |-> [day |-> (i % 3) + 1, aware |-> FALSE],
         sold |-> FALSE, sold_on |-> 0]]

Books ==
    UNION { [1..n -> TradeKinds] : n \in 0..MaxTrades } \cup { LongBook }

\* The ledger after the trades of `book`: trade i has holding i, BUY
\* transaction n + i and, when sold, SELL transaction 2n + i.
HoldingsOf(book) ==
    [h \in {i \in 1..Len(book) : ~book[i].sold} |->
        Holding(book[h].ticker, 1, book[h].price, NotesNone)]

TransactionsOf(book) ==
    LET n == Len(book)
    IN  [t \in (n + 1)..(2 * n) \cup {2 * n + i : i \in {j \in 1..n : book[j].sold}} |->
            IF t <= 2 * n
            THEN Transaction("buy", book[t - n].ticker, 1, book[t - n].price,
                             0 - book[t - n].price, book[t - n].date, t - n)
            ELSE Transaction("sell", book[t - 2 * n].ticker, 1, book[t - 2 * n].price,
                             book[t - 2 * n].price,
                             [day |-> book[t - 2 * n].sold_on, aware |-> FALSE],
                             t - 2 * n)]

\* get_transaction_history(ticker, start_date, end_date, transaction_type, limit)
HistoryRequests ==
    ( {FilterNone, <<" ", "a">>}
      \X {FilterNone, <<"2">>, <<"1", "T", "Z">>}
      \X {FilterNone, <<"2">>}
      \X {FilterNone, <<"b", "u", "y">>, <<" ", "S", "E", "L", "L">>}
      \X {-1, 0, 1, 2, MaxLimit + 1} )
    \cup LedgerHistoryRequests
    \cup { <<<<"1">>, FilterNone, FilterNone, FilterNone, 50>>,
           <<FilterNone, FilterNone, FilterNone, <<"x">>, 50>>,
           <<<<>>, <<>>, <<>>, <<>>, 50>> }

\* The one caller of get_transaction_history
Reader == CHOOSE p \in Procs : \A q \in Procs : p <= q

InitHistory ==
    \E book \in Books :
        /\ holdings = HoldingsOf(book)
        /\ transactions = TransactionsOf(book)
        /\ portfolios = create_item(<<>>, PortfolioId,
                                     Portfolio(DefaultBalance
                                               - 100 * Cardinality(DOMAIN HoldingsOf(book))))
        /\ uuids = 3 * Len(book)
        /\ pc = [p \in Procs |-> "idle"]
        /\ call = [p \in Procs |-> NoCall]
        /\ loc = [p \in Procs |-> NoLoc]
        /\ res = [p \in Procs |-> NoRes]
        /\ pre = [p \in Procs |-> NoPre]
        /\ alone = [p \in Procs |-> TRUE]
        /\ written = [p \in Procs |-> <<>>]
        /\ settled = DOMAIN TransactionsOf(book)
        /\ bought = NoBought
        /\ events = {}
        /\ cosmos = NewClient
        /\ calls = MaxCalls - 1

NextHistory ==
    \/ CallGetTransactionHistory(Reader, HistoryRequests)
    \/ QueryTransactions(Reader)
    \/ Return(Reader)

SpecHistory == InitHistory /\ [][NextHistory]_vars

\* ------------------------------------------------ get_holdings on a ledger
\* get_holdings(filter_ticker, include_totals) on the ledgers that at most
\* MaxTrades purchases (add_holding), none of them sold, have left:
\* purchase i has holding i and BUY transaction n + i.
BookHoldingsRequests ==
    {FilterNone, <<>>, <<"a">>, <<" ", "b">>, <<"1">>} \X {TRUE, FALSE}

Purchases ==
    [ticker : {<<"A">>, <<"B">>}, quantity : {1, 2}, price : {100, 150}]

BoughtHoldings(purchases) ==
    [h \in 1..Len(purchases) |->
        Holding(purchases[h].ticker, purchases[h].quantity, purchases[h].price, NotesNone)]

BoughtTransactions(purchases) ==
    [t \in (Len(purchases) + 1)..(2 * Len(purchases)) |->
        Transaction("buy", purchases[t - Len(purchases)].ticker,
                    purchases[t - Len(purchases)].quantity, purchases[t - Len(purchases)].price,
                    0 - purchases[t - Len(purchases)].quantity * purchases[t - Len(purchases)].price,
                    utcnow, t - Len(purchases))]

InitHoldings ==
    \E purchases \in UNION { [1..n -> Purchases] : n \in 0..MaxTrades } :
        /\ holdings = BoughtHoldings(purchases)
        /\ transactions = BoughtTransactions(purchases)
        /\ portfolios = create_item(<<>>, PortfolioId,
                                     Portfolio(DefaultBalance
                                               - total_invested(BoughtHoldings(purchases))))
        /\ uuids = 2 * Len(purchases)
        /\ pc = [p \in Procs |-> "idle"]
        /\ call = [p \in Procs |-> NoCall]
        /\ loc = [p \in Procs |-> NoLoc]
        /\ res = [p \in Procs |-> NoRes]
        /\ pre = [p \in Procs |-> NoPre]
        /\ alone = [p \in Procs |-> TRUE]
        /\ written = [p \in Procs |-> <<>>]
        /\ settled = DOMAIN BoughtTransactions(purchases)
        /\ bought = NoBought
        /\ events = {}
        /\ cosmos = NewClient
        /\ calls = MaxCalls - 1

NextHoldings ==
    \/ CallGetHoldings(Reader, BookHoldingsRequests)
    \/ QueryHoldings(Reader)
    \/ GetPortfolio(Reader)
    \/ Return(Reader)

SpecHoldings == InitHoldings /\ [][NextHoldings]_vars

\* ------------------------------------------------------- one call at a time
\* One caller trades on the ledger of a portfolio that has not traded yet:
\* the operations run one at a time, and a store call may fail.
InitSequential ==
    /\ portfolios = <<>>
    /\ holdings = <<>>
    /\ transactions = <<>>
    /\ uuids = 0
    /\ pc = [p \in Procs |-> "idle"]
    /\ call = [p \in Procs |-> NoCall]
    /\ loc = [p \in Procs |-> NoLoc]
    /\ res = [p \in Procs |-> NoRes]
    /\ pre = [p \in Procs |-> NoPre]
    /\ alone = [p \in Procs |-> TRUE]
    /\ written = [p \in Procs |-> <<>>]
    /\ settled = {}
    /\ bought = NoBought
    /\ events = {}
    /\ cosmos = NewClient
    /\ calls = 0

NextSequential ==
    \/ CallAddHolding(Reader, AddRequests)
    \/ CallRemoveHolding(Reader)
    \/ CallUpdatePosition(Reader)
    \/ GetPortfolio(Reader)
    \/ CreatePortfolio(Reader)
    \/ UpdatePortfolio(Reader)
    \/ CreateHolding(Reader)
    \/ CreateBuyTransaction(Reader)
    \/ GetHoldingForSale(Reader)
    \/ WriteHoldingForSale(Reader)
    \/ CreateSellTransaction(Reader)
    \/ GetHoldingForUpdate(Reader)
    \/ WriteHoldingForUpdate(Reader)
    \/ StoreFailure(Reader)
    \/ Return(Reader)

SpecSequential == InitSequential /\ [][NextSequential]_vars

\* The same caller also asks for the holdings and their totals.
NextValued ==
    \/ CallAddHolding(Reader, AddRequests)
    \/ CallRemoveHolding(Reader)
    \/ CallUpdatePosition(Reader)
    \/ CallGetHoldings(Reader, HoldingsRequests)
    \/ GetPortfolio(Reader)
    \/ CreatePortfolio(Reader)
    \/ UpdatePortfolio(Reader)
    \/ CreateHolding(Reader)
    \/ CreateBuyTransaction(Reader)
    \/ GetHoldingForSale(Reader)
    \/ WriteHoldingForSale(Reader)
    \/ CreateSellTransaction(Reader)
    \/ GetHoldingForUpdate(Reader)
    \/ WriteHoldingForUpdate(Reader)
    \/ QueryHoldings(Reader)
    \/ StoreFailure(Reader)
    \/ Return(Reader)

SpecValued == InitSequential /\ [][NextValued]_vars

\* ------------------------------------------------- connect and disconnect
\* What an attempt meets: CosmosClient(...) or create_database_if_not_exists
\* raises CosmosHttpResponseError or another exception, or both return.
AttemptOutcomes ==
    {"connected", "client_http_error", "client_error", "database_http_error",
     "database_error"}
HttpErrors == {"client_http_error", "database_http_error"}

\* connect: `if self._connected: return`
already_connected(c) == c.connected

\* the handler of CosmosHttpResponseError retrying after the last attempt too
after_http_error_retrying(attempt) == "sleep"

\* connect, except exceptions.CosmosHttpResponseError: sleep and retry while
\* attempt < max_retries, raise ConnectionException otherwise
after_http_error(attempt) == IF attempt < max_retries THEN "sleep" ELSE "raised"

\* how a connect call that is at `at` has ended, if it has
connect_ended(at) ==
    IF at = "returned" THEN "succeeded"
    ELSE IF at = "raised" THEN "failed" ELSE "running"

\* connect is called: it returns at once when connected, and enters the loop
\* `for attempt in range(1, self.max_retries + 1)` otherwise
CallConnect ==
    /\ cosmos.at = "idle"
    /\ calls < MaxCalls
    /\ calls' = calls + 1
    /\ LET at == IF already_connected(cosmos) \/ max_retries < 1
                 THEN "returned" ELSE "attempt"
       IN  cosmos' = [cosmos EXCEPT !.at = at,
                                    !.attempt = IF at = "attempt" THEN 1 ELSE 0,
                                    !.outcomes = <<>>,
                                    !.began_connected = cosmos.connected,
                                    !.last = connect_ended(at),
                                    !.disconnected = FALSE]
    /\ UNCHANGED ledger

\* connect, one pass of the loop body: the client, the database, _connected,
\* or the handler of what was raised
Attempt ==
    /\ cosmos.at = "attempt"
    /\ \E outcome \in AttemptOutcomes :
         LET at == IF outcome = "connected" THEN "returned"
                   ELSE IF outcome \in HttpErrors THEN after_http_error(cosmos.attempt)
                   ELSE "raised"
         IN  cosmos' = [cosmos EXCEPT
                          !.client = @ \/ outcome \notin {"client_http_error", "client_error"},
                          !.database = @ \/ outcome = "connected",
                          !.connected = outcome = "connected",
                          !.at = at,
                          !.delay = IF at = "sleep"
                                    THEN retry_delay * 2 ^ (cosmos.attempt - 1)
                                    ELSE @,
                          !.outcomes = Append(@, outcome),
                          !.last = connect_ended(at)]
    /\ UNCHANGED <<ledger, calls>>

\* connect, time.sleep(delay) is over: the next pass of the loop, or the end
\* of the loop, where connect returns
Sleep ==
    /\ cosmos.at = "sleep"
    /\ LET at == IF cosmos.attempt + 1 <= max_retries THEN "attempt" ELSE "returned"
       IN  cosmos' = [cosmos EXCEPT !.at = at,
                                    !.attempt = IF at = "attempt" THEN @ + 1 ELSE @,
                                    !.last = connect_ended(at)]
    /\ UNCHANGED <<ledger, calls>>

\* The caller of connect takes what it returned or raised.
ConnectReturn ==
    /\ cosmos.at \in {"returned", "raised"}
    /\ cosmos' = [cosmos EXCEPT !.at = "idle"]
    /\ UNCHANGED <<ledger, calls>>

\* disconnect
Disconnect ==
    /\ cosmos.at = "idle"
    /\ calls < MaxCalls
    /\ calls' = calls + 1
    /\ cosmos' = IF cosmos.client
                 THEN [cosmos EXCEPT !.client = FALSE, !.database = FALSE,
                                     !.connected = FALSE, !.disconnected = TRUE]
                 ELSE [cosmos EXCEPT !.disconnected = TRUE]
    /\ UNCHANGED ledger

NextConnect ==
    \/ CallConnect
    \/ Attempt
    \/ Sleep
    \/ ConnectReturn
    \/ Disconnect

\* connect has no await: once called it runs on, pass after pass.
SpecConnect ==
    Init /\ [][NextConnect]_vars /\ WF_vars(Attempt) /\ WF_vars(Sleep)

\* ------------------------------------------------- tickers as callers give them
\* The ticker argument of add_to_portfolio is any string: lower and upper case
\* letters, blanks, the dot of an exchange suffix and a character no ticker
\* holds, in strings of up to MaxTickerLen characters.
MaxTickerLen == 3
TickerChars == { "a", "B", " ", ".", "1" }
TickerInputs == UNION { [1..n -> TickerChars] : n \in 0..MaxTickerLen }
TickerRequests == TickerInputs \X { <<1, 1>> } \X { 100 } \X { DateNone }

\* A caller buys under any ticker and sells what it bought, one call at a
\* time, on the ledger of a portfolio that has not traded yet.
InitTicker ==
    /\ portfolios = <<>>
    /\ holdings = <<>>
    /\ transactions = <<>>
    /\ uuids = 0
    /\ pc = [p \in Procs |-> "idle"]
    /\ call = [p \in Procs |-> NoCall]
    /\ loc = [p \in Procs |-> NoLoc]
    /\ res = [p \in Procs |-> NoRes]
    /\ pre = [p \in Procs |-> NoPre]
    /\ alone = [p \in Procs |-> TRUE]
    /\ written = [p \in Procs |-> <<>>]
    /\ settled = {}
    /\ bought = NoBought
    /\ events = {}
    /\ cosmos = NewClient
    /\ calls = MaxCalls - 2

NextTicker ==
    \/ CallAddHolding(Reader, TickerRequests)
    \/ CallRemoveHolding(Reader)
    \/ GetPortfolio(Reader)
    \/ CreatePortfolio(Reader)
    \/ UpdatePortfolio(Reader)
    \/ CreateHolding(Reader)
    \/ CreateBuyTransaction(Reader)
    \/ GetHoldingForSale(Reader)
    \/ WriteHoldingForSale(Reader)
    \/ CreateSellTransaction(Reader)
    \/ Return(Reader)

SpecTicker == InitTicker /\ [][NextTicker]_vars

\* ================================================================ properties
\* What get_cash_balance returns on a portfolios container: the stored
\* balance, or the default balance of the portfolio it would create.
CashBalance(container) ==
    IF Exists(container, PortfolioId)
    THEN container[PortfolioId].cash_balance
    ELSE DefaultBalance

Finished(p, op) == pc[p] = "done" /\ call[p].op = op

\* The call of p ran from its beginning to its end with no step of another
\* caller in between, and the store did not fail it.
RanAlone(p) == alone[p] /\ res[p].exc # "RepositoryException"

\* container is `before` with exactly one more document, under a new id.
OneMore(container, before, id) ==
    /\ id \notin DOMAIN before
    /\ DOMAIN container = DOMAIN before \cup {id}
    /\ \A k \in DOMAIN before : container[k] = before[k]

\* C1: in every reachable state, whatever the sequence and interleaving of
\* add_holding, remove_holding, update_cash_balance and
\* get_or_create_portfolio calls, the stored cash_balance is >= 0.
C1_CashNeverNegative ==
    \A id \in DOMAIN portfolios : portfolios[id].cash_balance >= 0

\* C1 witness: a debit has brought the stored balance down to exactly 0.
C1_Witness ==
    /\ Exists(portfolios, PortfolioId)
    /\ portfolios[PortfolioId].cash_balance = 0
    /\ \E p \in Procs : Finished(p, "add_holding") /\ res[p].success

\* The add_holding request of p is valid.
ValidBuy(p) ==
    /\ validate_ticker(call[p].ticker).ok
    /\ validate_quantity(call[p].quantity).ok
    /\ validate_price(call[p].price).ok
    /\ validate_date(call[p].purchase_date).ok

\* quantity * price of the add_holding request of p
BuyCost(p) == (call[p].quantity[1] \div call[p].quantity[2]) * call[p].price

\* C2: a valid add_holding(ticker, quantity, price) with quantity*price <=
\* the current balance, run with no other operation interleaved (and no
\* store failure), leaves exactly one new holding with the uppercased
\* ticker, the quantity and the price, exactly one new BUY transaction with
\* total = -(quantity*price), and the stored and returned balance equal to
\* the old balance - quantity*price.
C2_BuyWithinBalance ==
    \A p \in Procs :
        ( /\ Finished(p, "add_holding")
          /\ RanAlone(p)
          /\ ValidBuy(p)
          /\ BuyCost(p) <= CashBalance(pre[p].portfolios) )
        =>
        /\ res[p].success
        /\ OneMore(holdings, pre[p].holdings, res[p].holding_id)
        /\ holdings[res[p].holding_id].ticker = Upper(Strip(call[p].ticker))
        /\ holdings[res[p].holding_id].quantity = call[p].quantity[1]
        /\ holdings[res[p].holding_id].purchase_price = call[p].price
        /\ OneMore(transactions, pre[p].transactions, res[p].transaction_id)
        /\ transactions[res[p].transaction_id].type = "buy"
        /\ transactions[res[p].transaction_id].ticker = Upper(Strip(call[p].ticker))
        /\ transactions[res[p].transaction_id].quantity = call[p].quantity[1]
        /\ transactions[res[p].transaction_id].price = call[p].price
        /\ transactions[res[p].transaction_id].total = 0 - BuyCost(p)
        /\ Exists(portfolios, PortfolioId)
        /\ portfolios[PortfolioId].cash_balance
             = CashBalance(pre[p].portfolios) - BuyCost(p)
        /\ res[p].new_cash_balance = CashBalance(pre[p].portfolios) - BuyCost(p)

\* C2 witness: a second buy has succeeded on a portfolio that already held
\* a position, paid from the balance the first buy left.
C2_Witness ==
    \E p \in Procs :
        /\ Finished(p, "add_holding")
        /\ RanAlone(p)
        /\ res[p].success
        /\ DOMAIN pre[p].holdings # {}
        /\ CashBalance(pre[p].portfolios) < DefaultBalance

\* C3: an add_holding request with quantity*price > the current balance
\* ends with InsufficientFunds (insufficient_funds at the tool) having
\* written nothing; run alone, it leaves the holdings, the transactions and
\* the cash balance as they were.
C3_BuyBeyondBalance ==
    \A p \in Procs :
        ( /\ Finished(p, "add_holding")
          /\ loc[p].current_balance # None
          /\ loc[p].total_cost > loc[p].current_balance )
        =>
        /\ res[p].exc = "InsufficientFundsError"
        /\ res[p].error = "insufficient_funds"
        /\ ~res[p].success
        /\ loc[p].holding_id = None
        /\ loc[p].transaction_id = None
        /\ alone[p] =>
             /\ holdings = pre[p].holdings
             /\ transactions = pre[p].transactions
             /\ CashBalance(portfolios) = CashBalance(pre[p].portfolios)

\* C3 witness: a buy costing more than the balance left by an earlier buy
\* has been refused.
C3_Witness ==
    \E p \in Procs :
        /\ Finished(p, "add_holding")
        /\ alone[p]
        /\ res[p].error = "insufficient_funds"
        /\ BuyCost(p) > CashBalance(pre[p].portfolios)
        /\ DOMAIN pre[p].holdings # {}

\* C4: in every reachable state every stored holding has quantity > 0, and
\* a sale that has brought a holding to 0 has left no record of it.
C4_QuantityPositive ==
    /\ \A h \in DOMAIN holdings : holdings[h].quantity > 0
    /\ \A p \in Procs :
        ( /\ Finished(p, "remove_holding")
          /\ res[p].success
          /\ res[p].remaining_quantity = 0 )
        => ~Exists(holdings, call[p].position_id)

\* C4 witness: a sale of an explicit quantity equal to the whole position
\* has succeeded.
C4_Witness ==
    \E p \in Procs :
        /\ Finished(p, "remove_holding")
        /\ res[p].success
        /\ call[p].quantity # QuantityNone
        /\ res[p].remaining_quantity = 0
        /\ res[p].holding_removed

\* The sum of the quantities of the transactions `ids` of the container.
RECURSIVE SumQuantity(_, _)
SumQuantity(container, ids) ==
    IF ids = {} THEN 0
    ELSE LET t == CHOOSE x \in ids : TRUE
         IN  container[t].quantity + SumQuantity(container, ids \ {t})

\* The shares sold of position h according to the SELL transactions.
Sold(h) ==
    SumQuantity(transactions,
                {t \in DOMAIN transactions :
                    transactions[t].type = "sell" /\ transactions[t].position = h})

\* C5: for every holding, in every reachable state, the quantities of the
\* SELL transactions recorded for it add up to at most the quantity it was
\* bought with.
C5_NeverOversold ==
    \A t \in DOMAIN transactions :
        transactions[t].type = "buy"
        => Sold(transactions[t].position) <= transactions[t].quantity

\* The raw quantity q is a whole number of shares.
Whole(q) == q[2] = 1

\* C6: remove_holding on an existing holding of quantity Q, run alone: with
\* the quantity omitted or equal to Q the record is deleted and the result
\* has holding_removed = true and remaining_quantity = 0; with a quantity
\* of 0 < quantity < Q shares the record stays with Q - quantity and the
\* result has holding_removed = false and remaining_quantity = Q - quantity.
C6_FullAndPartialSale ==
    \A p \in Procs :
        ( /\ Finished(p, "remove_holding")
          /\ RanAlone(p)
          /\ Exists(pre[p].holdings, call[p].position_id) )
        =>
        LET id == call[p].position_id
            Q == pre[p].holdings[id].quantity
            q == call[p].quantity
        IN  /\ (q = QuantityNone \/ (Whole(q) /\ q[1] = Q)) =>
                /\ res[p].success
                /\ ~Exists(holdings, id)
                /\ res[p].holding_removed
                /\ res[p].remaining_quantity = 0
            /\ (Whole(q) /\ 0 < q[1] /\ q[1] < Q) =>
                /\ res[p].success
                /\ Exists(holdings, id)
                /\ holdings[id] = [pre[p].holdings[id] EXCEPT !.quantity = Q - q[1]]
                /\ ~res[p].holding_removed
                /\ res[p].remaining_quantity = Q - q[1]

\* C6 witness: one share of a holding of two has been sold.
C6_Witness ==
    \E p \in Procs :
        /\ Finished(p, "remove_holding")
        /\ RanAlone(p)
        /\ res[p].success
        /\ Exists(pre[p].holdings, call[p].position_id)
        /\ pre[p].holdings[call[p].position_id].quantity = 2
        /\ call[p].quantity = <<1, 1>>
        /\ res[p].remaining_quantity = 1

\* C7: a successful remove_holding, run alone, that sells k shares of a
\* holding with purchase price price records exactly one SELL transaction,
\* with quantity k, that price and total = +(k * price), and leaves the
\* cash balance at the balance before plus k * price.
C7_SaleRecorded ==
    \A p \in Procs :
        ( /\ Finished(p, "remove_holding")
          /\ RanAlone(p)
          /\ res[p].success )
        =>
        /\ Exists(pre[p].holdings, call[p].position_id)
        /\ LET holding == pre[p].holdings[call[p].position_id]
               k == IF call[p].quantity = QuantityNone
                    THEN holding.quantity ELSE call[p].quantity[1]
               price == holding.purchase_price
               t == res[p].transaction_id
           IN  /\ res[p].quantity_sold = k
               /\ res[p].proceeds = k * price
               /\ OneMore(transactions, pre[p].transactions, t)
               /\ transactions[t].type = "sell"
               /\ transactions[t].ticker = holding.ticker
               /\ transactions[t].quantity = k
               /\ transactions[t].price = price
               /\ transactions[t].total = k * price
               /\ portfolios[PortfolioId].cash_balance
                    = CashBalance(pre[p].portfolios) + k * price
               /\ res[p].new_cash_balance = CashBalance(pre[p].portfolios) + k * price

\* C7 witness: one share of a holding of two, bought at 50000, has been sold
\* and the balance is back at 50000.
C7_Witness ==
    \E p \in Procs :
        /\ Finished(p, "remove_holding")
        /\ RanAlone(p)
        /\ res[p].success
        /\ res[p].quantity_sold = 1
        /\ res[p].proceeds = 50000
        /\ ~res[p].holding_removed
        /\ res[p].new_cash_balance = 50000

\* C8: transactions are append-only: no step of any call changes a field
\* of a stored transaction or removes one.
C8_AppendOnly ==
    [][\A t \in DOMAIN transactions :
          /\ t \in DOMAIN transactions'
          /\ transactions'[t] = transactions[t]]_vars

\* C8 witness: a sale has been recorded next to the purchase it sells from.
C8_Witness ==
    \E b, t \in DOMAIN transactions :
        /\ transactions[b].type = "buy"
        /\ transactions[t].type = "sell"
        /\ transactions[t].position = transactions[b].position
        /\ \E p \in Procs : Finished(p, "remove_holding") /\ res[p].success

\* C9: under a creation race neither caller of get_or_create_portfolio
\* fails: the loser's duplicate-create failure is caught and the existing
\* record returned, so no call ends with DuplicateItemException.
C9_RaceLoserRecovers ==
    \A p \in Procs : pc[p] = "done" => res[p].exc # "DuplicateItemException"

\* C10: the portfolio is created lazily, once, with cash_balance 100000:
\* the step that stores it stores the default balance; once stored it stays
\* stored, a later get_or_create_portfolio returns the stored record
\* without going on to create, and its balance changes only by the write
\* of an update_cash_balance.
C10_CreatedOnceWithDefault ==
    [][ /\ (~Exists(portfolios, PortfolioId) /\ Exists(portfolios', PortfolioId))
           => portfolios'[PortfolioId].cash_balance = DefaultBalance
        /\ Exists(portfolios, PortfolioId) =>
            /\ Exists(portfolios', PortfolioId)
            /\ \A p \in Procs :
                 pc[p] = "portfolio_get" => pc'[p] # "portfolio_create"
            /\ \A p \in Procs :
                 ( /\ pc[p] = "portfolio_get"
                   /\ pc'[p] = "done"
                   /\ call[p].op = "get_cash_balance"
                   /\ res'[p].exc = "none" )
                 => /\ res'[p].success
                    /\ res'[p].new_cash_balance = portfolios[PortfolioId].cash_balance
            /\ portfolios' # portfolios =>
                 \E p \in Procs :
                    /\ pc[p] = "portfolio_update"
                    /\ pc'[p] = "done"
                    /\ res'[p].success
                    /\ portfolios'[PortfolioId].cash_balance = loc[p].cash_balance
      ]_vars

\* C10 witness: get_cash_balance has returned the balance a buy left, not
\* the default balance.
C10_Witness ==
    \E p \in Procs :
        /\ Finished(p, "get_cash_balance")
        /\ res[p].success
        /\ res[p].new_cash_balance # DefaultBalance
        /\ res[p].new_cash_balance = portfolios[PortfolioId].cash_balance

\* C11: update_cash_balance(amount, operation), run alone on balance b:
\* every amount >= 0 is accepted with add or subtract; add stores and
\* returns b + amount; subtract with amount <= b stores and returns
\* b - amount; subtract with amount > b ends with InsufficientFundsError and
\* the stored balance as it was; a negative amount or another operation
\* ends with ValidationError and changes nothing.
C11_CashUpdateContract ==
    \A p \in Procs :
        ( /\ Finished(p, "update_cash_balance")
          /\ RanAlone(p) )
        =>
        LET b == CashBalance(pre[p].portfolios)
            amount == call[p].amount
            operation == call[p].operation
        IN  /\ (amount >= 0 /\ operation = "add") =>
                /\ res[p].success
                /\ res[p].new_cash_balance = b + amount
                /\ CashBalance(portfolios) = b + amount
            /\ (amount >= 0 /\ operation = "subtract" /\ amount <= b) =>
                /\ res[p].success
                /\ res[p].new_cash_balance = b - amount
                /\ CashBalance(portfolios) = b - amount
            /\ (amount >= 0 /\ operation = "subtract" /\ amount > b) =>
                /\ res[p].exc = "InsufficientFundsError"
                /\ CashBalance(portfolios) = b
            /\ (amount < 0 \/ operation \notin {"add", "subtract"}) =>
                /\ res[p].exc = "ValidationError"
                /\ store = <<pre[p].portfolios, pre[p].holdings, pre[p].transactions>>

\* The calls that only read the ledger, or write a holding only.
NoCashOps ==
    {"update_position", "get_holdings", "get_transaction_history", "get_cash_balance"}

\* C12: the cash balance of a stored portfolio changes only in the
\* portfolio_repo.update of update_cash_balance: add_holding and
\* remove_holding change it in that write only, which is their last step,
\* and no step of update_position, get_holdings, get_transaction_history or
\* get_cash_balance (get_or_create_portfolio on the stored portfolio
\* included) changes it.
C12_OnlyCashUpdateMutates ==
    [][ Exists(portfolios, PortfolioId) =>
          /\ Exists(portfolios', PortfolioId)
          /\ \A p \in Procs :
               ( /\ pc'[p] # pc[p]
                 /\ portfolios'[PortfolioId].cash_balance
                      # portfolios[PortfolioId].cash_balance )
               => /\ pc[p] = "portfolio_update"
                  /\ loc[p].cont = "update_cash_balance"
                  /\ call[p].op \notin NoCashOps
                  /\ pc'[p] = "done"
                  /\ res'[p].success
                  /\ res'[p].new_cash_balance = portfolios'[PortfolioId].cash_balance
      ]_vars

\* C12 witness: get_holdings has reported, with its totals, a balance that
\* an earlier buy had debited, and the balance is still that.
C12_Witness ==
    \E p \in Procs :
        /\ Finished(p, "get_holdings")
        /\ res[p].success
        /\ res[p].new_cash_balance = DefaultBalance - 50000
        /\ portfolios[PortfolioId].cash_balance = DefaultBalance - 50000
        /\ res[p].count = 1

\* C13: a call that ends with ValidationError has made no store write, under
\* any interleaving, and run alone it leaves holdings, transactions and
\* portfolio exactly as they were when it began.
C13_ValidationErrorMutatesNothing ==
    \A p \in Procs :
        (pc[p] = "done" /\ res[p].exc = "ValidationError")
        =>
        /\ written[p] = <<>>
        /\ alone[p] =>
             store = <<pre[p].portfolios, pre[p].holdings, pre[p].transactions>>

\* C13 witness: a sale of two shares of a stored holding of one share has
\* been refused with ValidationError.
C13_Witness ==
    \E p \in Procs :
        /\ Finished(p, "remove_holding")
        /\ res[p].exc = "ValidationError"
        /\ alone[p]
        /\ call[p].quantity = <<2, 1>>
        /\ Exists(holdings, call[p].position_id)
        /\ holdings[call[p].position_id].quantity = 1

\* C14: remove_holding and update_position, run alone with a position_id
\* for which no holding is stored (never created, or sold in full by an
\* earlier call), end with ItemNotFoundException and leave holdings,
\* transactions and portfolio as they were; under any interleaving a
\* call that ends with ItemNotFoundException has made no write.
C14_MissingPositionNotFound ==
    \A p \in Procs :
        (Finished(p, "remove_holding") \/ Finished(p, "update_position"))
        =>
        /\ ( RanAlone(p) /\ ~Exists(pre[p].holdings, call[p].position_id) )
             => /\ res[p].exc = "ItemNotFoundException"
                /\ ~res[p].success
                /\ store = <<pre[p].portfolios, pre[p].holdings, pre[p].transactions>>
        /\ res[p].exc = "ItemNotFoundException" => written[p] = <<>>

\* C14 witness: a sale has been asked of a position that an earlier call
\* sold in full, while another holding is stored.
C14_Witness ==
    \E p \in Procs :
        /\ Finished(p, "remove_holding")
        /\ RanAlone(p)
        /\ res[p].exc = "ItemNotFoundException"
        /\ call[p].position_id # UnknownId
        /\ \E t \in DOMAIN transactions :
             transactions[t].type = "sell"
             /\ transactions[t].position = call[p].position_id

\* the steps of an update_position call
UpdateSteps == {"position_get", "position_update"}

\* C15: every step of an update_position call leaves the portfolio and the
\* transactions unchanged, creates and deletes no holding and leaves every
\* other holding and the targeted holding's ticker as they were; when no
\* other call ran in between, the targeted holding's quantity is unchanged
\* too, and a successful call has stored the validated price and notes
\* that were given and kept those that were not.
C15_UpdatePositionFrame ==
    [][ \A p \in Procs :
          (pc[p] \in UpdateSteps /\ pc'[p] # pc[p])
          =>
          LET id == call[p].position_id IN
          /\ portfolios' = portfolios
          /\ transactions' = transactions
          /\ DOMAIN holdings' = DOMAIN holdings
          /\ \A h \in DOMAIN holdings :
               /\ h # id => holdings'[h] = holdings[h]
               /\ holdings'[h].ticker = holdings[h].ticker
               /\ alone[p] => holdings'[h].quantity = holdings[h].quantity
          /\ (holdings' # holdings) => (pc[p] = "position_update" /\ res'[p].success)
          /\ (alone[p] /\ pc'[p] = "done" /\ res'[p].success)
               => /\ holdings'[id].purchase_price =
                       IF call[p].price = PriceNone
                       THEN pre[p].holdings[id].purchase_price
                       ELSE call[p].price
                  /\ call[p].notes = NotesNone
                       => holdings'[id].notes = pre[p].holdings[id].notes ]_vars

\* C15 witness: an update_position call run alone has succeeded in setting
\* the price of a holding of one share to 60000.
C15_Witness ==
    \E p \in Procs :
        /\ Finished(p, "update_position")
        /\ RanAlone(p)
        /\ res[p].success
        /\ call[p].price = 60000
        /\ holdings[call[p].position_id].purchase_price = 60000
        /\ pre[p].holdings[call[p].position_id].purchase_price = 50000
        /\ holdings[call[p].position_id].quantity = 1

\* notes that are given and blank: the empty string and a single space
BlankNotes == {<<>>, <<" ">>}

\* C16: update_position run alone on a stored holding with neither notes
\* nor price given ends with ValidationError and has written nothing; with
\* empty or whitespace-only notes and no price it succeeds, writes the
\* holding once and the stored notes are None.
C16_NoFieldsOrBlankNotes ==
    \A p \in Procs :
        ( /\ Finished(p, "update_position")
          /\ RanAlone(p)
          /\ Exists(pre[p].holdings, call[p].position_id)
          /\ call[p].price = PriceNone )
        =>
        /\ call[p].notes = NotesNone
             => /\ res[p].exc = "ValidationError"
                /\ written[p] = <<>>
                /\ store = <<pre[p].portfolios, pre[p].holdings, pre[p].transactions>>
        /\ call[p].notes \in BlankNotes
             => /\ res[p].success
                /\ written[p] = <<"holding">>
                /\ holdings[call[p].position_id].notes = NotesNone

\* C16 witness: a whitespace-only note has cleared the stored note "n".
C16_Witness ==
    \E p \in Procs :
        /\ Finished(p, "update_position")
        /\ RanAlone(p)
        /\ res[p].success
        /\ call[p].notes = <<" ">>
        /\ call[p].price = PriceNone
        /\ pre[p].holdings[call[p].position_id].notes = <<"n">>
        /\ holdings[call[p].position_id].notes = NotesNone

\* the writes of holding, transaction and cash balance made so far by the
\* call of p (the creation of a missing portfolio with the default balance,
\* part of reading the balance, is not one of them)
LedgerWrites(p) == SelectSeq(written[p], LAMBDA w : w # "portfolio")

WriteOrder == <<"holding", "transaction", "cash">>

IsPrefix(s, t) == Len(s) <= Len(t) /\ \A i \in 1..Len(s) : s[i] = t[i]

\* the validation and the first sufficiency check of the call of p passed
ChecksPassed(p) ==
    IF call[p].op = "add_holding"
    THEN /\ ValidBuy(p)
         /\ loc[p].current_balance # None
         /\ loc[p].total_cost = BuyCost(p)
         /\ loc[p].total_cost <= loc[p].current_balance
    ELSE /\ call[p].quantity # QuantityNone => validate_quantity(call[p].quantity).ok
         /\ loc[p].held # None
         /\ loc[p].quantity_to_sell > 0
         /\ loc[p].quantity_to_sell <= loc[p].held

Changed(old, new) ==
    { k \in DOMAIN old \cup DOMAIN new :
        ~(k \in DOMAIN old /\ k \in DOMAIN new /\ old[k] = new[k]) }

\* the sum of the totals of the transactions `ids`
RECURSIVE SumTotals(_)
SumTotals(ids) ==
    IF ids = {} THEN 0
    ELSE LET t == CHOOSE k \in ids : TRUE
         IN  transactions[t].total + SumTotals(ids \ {t})

\* C18: each store write is atomic per record and nothing more: every step,
\* of any caller and under any interleaving, changes at most one record of
\* one container, so the three writes of an operation are three steps
\* between which other callers act and the store can fail.
C18_OneRecordPerWrite ==
    [][ Cardinality(Changed(portfolios, portfolios'))
          + Cardinality(Changed(holdings, holdings'))
          + Cardinality(Changed(transactions, transactions')) <= 1 ]_vars

\* C18 witness: no call is under way, two add_holding calls have both
\* recorded their BUY transaction and written the cash balance (both
\* succeeded), the cash balance is not the default balance plus the totals
\* of the recorded transactions, and a holding written by a call that
\* failed afterwards is stored with no BUY transaction.
C18_Witness ==
    /\ \A p \in Procs : pc[p] \in {"idle", "done"}
    /\ \E t1, t2 \in settled :
         /\ t1 # t2
         /\ transactions[t1].type = "buy"
         /\ transactions[t2].type = "buy"
    /\ DOMAIN transactions = settled
    /\ portfolios[PortfolioId].cash_balance
         # DefaultBalance + SumTotals(DOMAIN transactions)
    /\ \E h \in DOMAIN holdings :
         \A t \in DOMAIN transactions : transactions[t].position # h

\* a successful get_transaction_history call of p has ended
Listed(p) == Finished(p, "get_transaction_history") /\ res[p].success

\* the date of the i-th transaction returned to p
DateAt(p, i) == transactions[res[p].transactions[i]].date

C19_WitnessZero ==
    \E p \in Procs :
        /\ Listed(p)
        /\ call[p].limit = 0
        /\ Len(res[p].transactions) = 1

\* clamp(limit, 1, 200)
Clamped(limit) == IF limit < 1 THEN 1 ELSE IF limit > MaxLimit THEN MaxLimit ELSE limit

\* the stored transactions that match every filter given in the call of p:
\* ticker and type compared without case, start_date <= date <= end_date
Matching(p) ==
    { t \in DOMAIN transactions :
        /\ Given(call[p].ticker)
             => transactions[t].ticker = Upper(Strip(call[p].ticker))
        /\ Given(call[p].transaction_type)
             => Upper(TypeValue(transactions[t].type))
                  = Upper(Strip(call[p].transaction_type))
        /\ Given(call[p].start_date)
             => transactions[t].date.day >= validate_date(call[p].start_date).value.day
        /\ Given(call[p].end_date)
             => transactions[t].date.day <= validate_date(call[p].end_date).value.day }

\* the transactions returned to p are the first clamp(limit, 1, 200) of the
\* matching transactions by date descending, and count is their number
FirstPage(p) ==
    LET page == res[p].transactions
        size == IF Cardinality(Matching(p)) < Clamped(call[p].limit)
                THEN Cardinality(Matching(p)) ELSE Clamped(call[p].limit)
    IN  /\ Len(page) = size
        /\ res[p].count = size
        /\ \A i \in 1..Len(page) : page[i] \in Matching(p)
        /\ \A i, j \in 1..Len(page) : i < j =>
             /\ page[i] # page[j]
             /\ DateAt(p, i).day >= DateAt(p, j).day
        /\ \A t \in Matching(p) :
             (\A i \in 1..Len(page) : page[i] # t)
             => \A i \in 1..Len(page) : DateAt(p, i).day >= transactions[t].date.day

\* C20: a get_transaction_history call whose arguments are valid returns
\* exactly the first clamp(limit, 1, 200) of the matching transactions by
\* date descending, with count their number.
C20_FirstPageOfMatching ==
    \A p \in Procs :
        (Finished(p, "get_transaction_history") /\ res[p].exc # "ValidationError")
        => /\ res[p].success
           /\ FirstPage(p)

\* What holds of C20: a get_transaction_history call that returns a list
\* returns the first page of the matching transactions.
C20_ReturnedIsFirstPage == \A p \in Procs : Listed(p) => FirstPage(p)

\* A filter leaves a later matching transaction out for an earlier one no
\* more: two BUY transactions are stored, the later does not match the
\* ticker asked for, and the earlier one is returned with limit 1.
C20_FilteredBeforeLimit ==
    \E p \in Procs :
        /\ Listed(p)
        /\ call[p].limit = 1
        /\ Given(call[p].ticker)
        /\ Len(res[p].transactions) = 1
        /\ \E t \in DOMAIN transactions \ Matching(p) :
             transactions[t].date.day > DateAt(p, 1).day

\* The call fails with TypeError: start_date is given with the offset Z and
\* a transaction is stored with a date that has none.
C20_OffsetDateRaises ==
    \E p \in Procs :
        /\ Finished(p, "get_transaction_history")
        /\ res[p].exc = "TypeError"
        /\ call[p].start_date = <<"1", "T", "Z">>
        /\ \A t \in DOMAIN transactions : ~transactions[t].date.aware

\* the sum of quantity * purchase_price over the holdings `ids` of `held`
RECURSIVE SumInvested(_, _)
SumInvested(held, ids) ==
    IF ids = {} THEN 0
    ELSE LET h == CHOOSE k \in ids : TRUE
         IN  held[h].quantity * held[h].purchase_price + SumInvested(held, ids \ {h})

\* the sums of the quantity and of the invested entries of a breakdown
RECURSIVE SumBreakdown(_, _)
SumBreakdown(by_ticker, tickers) ==
    IF tickers = {} THEN [quantity |-> 0, invested |-> 0]
    ELSE LET k == CHOOSE t \in tickers : TRUE
             rest == SumBreakdown(by_ticker, tickers \ {k})
         IN  [quantity |-> by_ticker[k].quantity + rest.quantity,
              invested |-> by_ticker[k].invested + rest.invested]

\* C21: a get_holdings call that succeeds returns the stored holdings of
\* the ticker asked for (all of them when none is asked for) and their
\* number as count; with include_totals, total_invested is the sum of
\* quantity * purchase_price over the returned holdings, cash_balance is
\* the stored cash balance, total_portfolio_value is their sum, and the
\* by_ticker breakdown has one entry for each ticker returned, holding the
\* quantity and the invested amount of that ticker's holdings, so that its
\* entries add up to the total quantity and to total_invested.
C21_HoldingsTotals ==
    \A p \in Procs :
        (Finished(p, "get_holdings") /\ res[p].success /\ RanAlone(p))
        =>
        LET held == res[p].holdings
            ids == DOMAIN held
        IN
        /\ ids = { h \in DOMAIN holdings :
                     Given(call[p].ticker)
                       => holdings[h].ticker = Upper(Strip(call[p].ticker)) }
        /\ \A h \in ids : held[h] = holdings[h]
        /\ res[p].count = Cardinality(ids)
        /\ call[p].include_totals =>
             /\ res[p].total_invested = SumInvested(held, ids)
             /\ res[p].new_cash_balance = portfolios[PortfolioId].cash_balance
             /\ res[p].total_portfolio_value
                  = res[p].total_invested + res[p].new_cash_balance
             /\ DOMAIN res[p].by_ticker = { held[h].ticker : h \in ids }
             /\ \A k \in DOMAIN res[p].by_ticker :
                  /\ res[p].by_ticker[k].quantity
                       = SumQuantity(held, { h \in ids : held[h].ticker = k })
                  /\ res[p].by_ticker[k].invested
                       = SumInvested(held, { h \in ids : held[h].ticker = k })
             /\ SumBreakdown(res[p].by_ticker, DOMAIN res[p].by_ticker)
                  = [quantity |-> SumQuantity(held, ids),
                     invested |-> res[p].total_invested]

\* C21 witness: get_holdings with totals has returned two holdings of one
\* ticker, of 1 share at 100 and 2 shares at 150: 400 invested, 3 shares.
C21_Witness ==
    \E p \in Procs :
        /\ Finished(p, "get_holdings")
        /\ res[p].success
        /\ call[p].include_totals
        /\ res[p].count = 2
        /\ res[p].total_invested = 400
        /\ res[p].total_portfolio_value = DefaultBalance
        /\ DOMAIN res[p].by_ticker = {<<"A">>}
        /\ res[p].by_ticker[<<"A">>] = [quantity |-> 3, invested |-> 400]

\* the operations that are tool entry points
ToolOps ==
    {"add_holding", "remove_holding", "update_position", "get_holdings",
     "get_transaction_history"}

ErrorKinds == {"validation_error", "insufficient_funds", "internal_error"}

C23_BuyThenSell ==
    \A p \in Procs :
        ( /\ Finished(p, "remove_holding")
          /\ RanAlone(p)
          /\ bought.holding = call[p].position_id )
        =>
        /\ Exists(pre[p].holdings, call[p].position_id)
        /\ LET id == call[p].position_id
               q == pre[p].holdings[id].quantity
               price == pre[p].holdings[id].purchase_price
               whole == call[p].quantity = QuantityNone
               k == IF whole THEN q ELSE call[p].quantity[1] \div call[p].quantity[2]
           IN  /\ \E t \in DOMAIN transactions :
                    /\ transactions[t].type = "buy"
                    /\ transactions[t].position = id
                    /\ transactions[t].quantity = q
                    /\ transactions[t].price = price
                    /\ transactions[t].total = 0 - q * price
               /\ pre[p].portfolios[PortfolioId].cash_balance = bought.before - q * price
               /\ ( whole \/ ( /\ call[p].quantity[1] % call[p].quantity[2] = 0
                               /\ k >= 1 /\ k <= q ) )
                    => /\ res[p].success
                       /\ res[p].quantity_sold = k
                       /\ res[p].proceeds = k * price
                       /\ res[p].remaining_quantity = q - k
                       /\ res[p].holding_removed <=> k = q
                       /\ res[p].holding_removed <=> ~Exists(holdings, id)
                       /\ res[p].new_cash_balance = bought.before - (q - k) * price
                       /\ portfolios[PortfolioId].cash_balance
                            = bought.before - (q - k) * price
                       /\ k = q => portfolios[PortfolioId].cash_balance = bought.before

\* C23 witness: 2 shares bought at 50000 from a balance of 100000, then 1
\* sold: 50000 of proceeds, 1 share remaining, balance 50000.
C23_Witness ==
    \E p \in Procs :
        /\ Finished(p, "remove_holding")
        /\ RanAlone(p)
        /\ bought = [holding |-> call[p].position_id, before |-> DefaultBalance]
        /\ res[p].success
        /\ res[p].quantity_sold = 1
        /\ res[p].proceeds = 50000
        /\ res[p].remaining_quantity = 1
        /\ ~res[p].holding_removed
        /\ res[p].new_cash_balance = 50000

\* C23 witness of the whole position sold: the balance is back at what it
\* was before the purchase, which an earlier update_cash_balance had left
\* at 50000.
C23_WitnessWhole ==
    \E p \in Procs :
        /\ Finished(p, "remove_holding")
        /\ RanAlone(p)
        /\ bought = [holding |-> call[p].position_id, before |-> 50000]
        /\ res[p].success
        /\ res[p].holding_removed
        /\ portfolios[PortfolioId].cash_balance = 50000


\* ---------------------------------------------------------------------- C24
NoLowerCase(s) ==
    \A i \in 1..Len(s) : \A k \in 1..Len(LowerCase) : s[i] # LowerCase[k]

NoSurroundingSpace(s) ==
    s = <<>> \/ (s[1] \notin WhiteSpace /\ s[Len(s)] \notin WhiteSpace)

\* C24: for every ticker x that validate_ticker accepts, validate_ticker of
\* the result is the result again, and the result holds no lowercase letter
\* and no leading or trailing whitespace; every holding and every transaction
\* that add_holding and remove_holding wrote stores a ticker with no lowercase
\* letter.
C24_TickerNormalized ==
    /\ \A p \in Procs :
         call[p].op = "add_holding" /\ validate_ticker(call[p].ticker).ok
           => LET once == validate_ticker(call[p].ticker)
              IN  /\ validate_ticker(once.value) = once
                  /\ NoLowerCase(once.value)
                  /\ NoSurroundingSpace(once.value)
    /\ \A h \in DOMAIN holdings : NoLowerCase(holdings[h].ticker)
    /\ \A t \in DOMAIN transactions : NoLowerCase(transactions[t].ticker)

\* C24 witness: after a purchase that stored a holding and a BUY transaction
\* of ticker "A", the sale of that holding has returned and stored a SELL
\* transaction of ticker "A".
C24_Witness ==
    /\ pc[Reader] = "done"
    /\ call[Reader].op = "remove_holding"
    /\ res[Reader].success
    /\ \E t \in DOMAIN transactions :
         /\ transactions[t].type = "sell"
         /\ transactions[t].ticker = <<"A">>
         /\ transactions[t].position = call[Reader].position_id
    /\ \E t \in DOMAIN transactions :
         /\ transactions[t].type = "buy"
         /\ transactions[t].ticker = <<"A">>
         /\ transactions[t].position = call[Reader].position_id

\* C24 witness: the purchase under "a.B", a lowercase letter before the
\* suffix, stored a holding of ticker "A.B".
C24_WitnessSuffix ==
    /\ pc[Reader] = "done"
    /\ call[Reader].op = "add_holding"
    /\ call[Reader].ticker = <<"a", ".", "B">>
    /\ res[Reader].success
    /\ Exists(holdings, res[Reader].holding_id)
    /\ holdings[res[Reader].holding_id].ticker = <<"A", ".", "B">>


\* ---------------------------------------------------------------------- C25
\* No call is under way: the caller is between two calls, or has the result
\* of one in hand.
BetweenCalls == \A p \in Procs : pc[p] \in {"idle", "done"}

\* The stored cash balance is the default balance plus the signed totals of
\* the transactions recorded.
CashMatchesLedger ==
    Exists(portfolios, PortfolioId)
      => portfolios[PortfolioId].cash_balance
           = DefaultBalance + SumTotals(DOMAIN transactions)

ValueReported(p) ==
    /\ pc[p] = "done"
    /\ call[p].op = "get_holdings"
    /\ call[p].include_totals
    /\ ~Given(call[p].ticker)
    /\ res[p].success

FullSales(b) ==
    {s \in DOMAIN transactions :
        /\ transactions[s].type = "sell"
        /\ transactions[s].position = transactions[b].position
        /\ transactions[s].quantity = transactions[b].quantity}

\* C27: a holding is sold in full at most once: among the remove_holding
\* calls on one position, sequential or concurrent, at most one full sale
\* records a SELL transaction.
C27_SoldInFullOnce ==
    \A b \in DOMAIN transactions :
        transactions[b].type = "buy" => Cardinality(FullSales(b)) <= 1

\* C27 witness: a remove_holding call on a position that was sold in full
\* has ended with ItemNotFoundException, the sale not recorded a second time.
C27_Witness ==
    \E p \in Procs :
        /\ Finished(p, "remove_holding")
        /\ res[p].exc = "ItemNotFoundException"
        /\ \E b \in DOMAIN transactions :
             /\ transactions[b].type = "buy"
             /\ transactions[b].position = call[p].position_id
             /\ Cardinality(FullSales(b)) = 1


\* ---------------------------------------------------------------------- C28
\* C28: in every execution, other calls interleaving or not, an add_holding
\* call that ends with InsufficientFunds has written no holding and no
\* transaction.
C28_RefusedBuyWroteNothing ==
    \A p \in Procs :
        Finished(p, "add_holding") /\ res[p].exc = "InsufficientFundsError"
          => LedgerWrites(p) = <<>>

\* C28 witness: an add_holding call that other calls interleaved with has
\* ended with InsufficientFunds at its first sufficiency check, with nothing
\* written.
C28_Witness ==
    \E p \in Procs :
        /\ Finished(p, "add_holding")
        /\ res[p].exc = "InsufficientFundsError"
        /\ ~alone[p]
        /\ LedgerWrites(p) = <<>>
        /\ loc[p].holding_id = None


\* ---------------------------------------------------------------------- C29
\* the holding h is stored after the step as it was before
Kept(h) == Exists(holdings', h) /\ holdings'[h] = holdings[h]

\* C29: every step of an add_holding call leaves every stored holding as it
\* was and adds at most one holding, under an id never issued before (so two
\* buys of one ticker give two holdings); every step of a remove_holding call
\* leaves every holding but the one named by position_id as it was and adds
\* none.
C29_OwnHoldingOnly ==
    [][ \A p \in Procs :
          pc[p] # "idle" /\ pc'[p] # pc[p]
          =>
          /\ call[p].op = "add_holding" =>
               /\ \A h \in DOMAIN holdings : Kept(h)
               /\ \A h \in DOMAIN holdings' \ DOMAIN holdings :
                    /\ h > uuids
                    /\ h \notin PositionIds
                    /\ h = loc'[p].holding_id
               /\ Cardinality(DOMAIN holdings' \ DOMAIN holdings) <= 1
          /\ call[p].op = "remove_holding" =>
               /\ \A h \in DOMAIN holdings \ {call[p].position_id} : Kept(h)
               /\ DOMAIN holdings' \subseteq DOMAIN holdings ]_vars

\* C29 witness: two holdings of one ticker were stored, a remove_holding call
\* that ran alone has sold one of them in full, and the other is stored as
\* it was.
C29_Witness ==
    \E p \in Procs :
        /\ Finished(p, "remove_holding")
        /\ alone[p]
        /\ res[p].success
        /\ Exists(pre[p].holdings, call[p].position_id)
        /\ ~Exists(holdings, call[p].position_id)
        /\ \E h \in DOMAIN holdings :
             /\ h # call[p].position_id
             /\ Exists(pre[p].holdings, h)
             /\ holdings[h] = pre[p].holdings[h]
             /\ holdings[h].ticker = pre[p].holdings[call[p].position_id].ticker

\* ---------------------------------------------------------------------- C30
\* the attempts of the connect call before its last one
EarlierOutcomes == SubSeq(cosmos.outcomes, 1, Len(cosmos.outcomes) - 1)

\* the last connect call has ended
ConnectEnded == cosmos.at \in {"idle", "returned", "raised"} /\ cosmos.last # "none"

\* what holds of the attempts of a connect call, of how it ends and of
\* _connected, in every state
C30_Attempts ==
    /\ Len(cosmos.outcomes) <= max_retries
    /\ \A i \in 1..Len(EarlierOutcomes) : EarlierOutcomes[i] \in HttpErrors
    /\ cosmos.began_connected => cosmos.outcomes = <<>>
    /\ cosmos.at = "returned" =>
         /\ cosmos.connected
         /\ ~cosmos.began_connected =>
              /\ cosmos.outcomes # <<>>
              /\ cosmos.outcomes[Len(cosmos.outcomes)] = "connected"
    /\ cosmos.at = "raised" =>
         /\ ~cosmos.connected
         /\ cosmos.outcomes # <<>>
         /\ LET met == cosmos.outcomes[Len(cosmos.outcomes)]
            IN  /\ met # "connected"
                /\ met \in HttpErrors => Len(cosmos.outcomes) = max_retries
    /\ ConnectEnded /\ cosmos.last = "failed" =>
         \/ cosmos.outcomes[Len(cosmos.outcomes)] \notin HttpErrors
         \/ Len(cosmos.outcomes) = max_retries
    /\ cosmos.connected <=> (cosmos.last = "succeeded" /\ ~cosmos.disconnected)

\* C30: a connect call makes at most max_retries attempts, each but the first
\* after a Cosmos HTTP error; it returns connected after its first successful
\* attempt, raises ConnectionException after max_retries attempts that met a
\* Cosmos HTTP error and at once after any other error, and makes no attempt
\* when already connected; _connected is true exactly when the last connect
\* call succeeded and no disconnect followed; and a connect call that has
\* begun ends.
C30_ConnectTerminates ==
    /\ []C30_Attempts
    /\ (cosmos.at \in {"attempt", "sleep"}) ~> (cosmos.at \in {"returned", "raised"})

\* C30 witness: a connect call has raised ConnectionException after
\* max_retries attempts that each met a Cosmos HTTP error, the last back-off
\* having lasted 2 seconds.
C30_Witness ==
    /\ cosmos.at = "raised"
    /\ Len(cosmos.outcomes) = max_retries
    /\ \A i \in 1..max_retries : cosmos.outcomes[i] \in HttpErrors
    /\ cosmos.delay = 2
    /\ ~cosmos.connected

\* C30 witness: a connect call on a connected client has returned with no
\* attempt made.
C30_WitnessConnected ==
    /\ cosmos.at = "returned"
    /\ cosmos.began_connected
    /\ cosmos.outcomes = <<>>
    /\ cosmos.connected

\* C30 witness: the second attempt of a connect call has connected, the
\* first having met a Cosmos HTTP error.
C30_WitnessRetry ==
    /\ cosmos.at = "returned"
    /\ Len(cosmos.outcomes) = 2
    /\ cosmos.outcomes[1] \in HttpErrors
    /\ cosmos.connected

\* C30 witness: a disconnect has followed a connect call that succeeded, and
\* the client is not connected.
C30_WitnessDisconnected ==
    /\ cosmos.at = "idle"
    /\ cosmos.last = "succeeded"
    /\ cosmos.disconnected
    /\ ~cosmos.connected

====
